---- MODULE Spec2Model ----
(***************************************************************************)
(* git-rv: the Sync, Submit, Export and Get-Info workflow state machines   *)
(* over a git repository, the per-branch Rietveld metadata kept in the     *)
(* local git config, and the review service.                               *)
(*                                                                         *)
(* Every handler of a state machine (the method `advance` dispatches to)   *)
(* is one action.  A raised GitRvException (or any other exception) ends   *)
(* the run in the pseudo-state ABORTED.  External commands whose result    *)
(* the code branches on, or that may raise, take their outcome from a      *)
(* small set with \E.                                                      *)
(***************************************************************************)
EXTENDS Naturals, Integers, Sequences, FiniteSets, TLC

(***************************************************************************)
(* Bounds of the model.                                                    *)
(***************************************************************************)
MaxCommits == 5      \* commits that exist in the repository and its remote
MaxIssues == 1       \* issues the review service hands out

(***************************************************************************)
(* State codes of the machines, as the classes declare them.               *)
(***************************************************************************)
SYNC_STARTING == 0
SYNC_CHECK_NEW == 1
SYNC_CHECK_CONTINUE == 2
SYNC_FETCH_REMOTE == 3
SYNC_MERGE_REMOTE_IN == 4
SYNC_ALERT_CONFLICT == 5
SYNC_EXPORT == 6
SYNC_CLEAN_UP == 7
SYNC_FINISHED == 8

SUBMIT_CHECK_ENVIRONMENT == 0
SUBMIT_VERIFY_APPROVAL == 1
SUBMIT_UPDATE_FROM_METADATA == 2
SUBMIT_ENTER_DETACHED_STATE == 3
SUBMIT_SET_HISTORY_FROM_REMOTE == 4
SUBMIT_CREATE_BRANCH == 5
SUBMIT_COMMIT == 6
SUBMIT_PUSHING == 7
SUBMIT_NOTIFY_FAILURE == 8
SUBMIT_CLEAN_UP_LOCAL == 9
SUBMIT_CLEAN_UP_REVIEW == 10
SUBMIT_FINISHED == 11

EXPORT_STARTING == 0
EXPORT_UPLOADING_ISSUE == 1
EXPORT_UPDATING_ISSUE == 2
EXPORT_UPDATING_METADATA == 3
EXPORT_FINISHED == 4

GETINFO_GET_INFO == 0
GETINFO_PULL == 1
GETINFO_PRINT_INFO == 2
GETINFO_FINISHED == 3

\* RenameBranchAction states (mv_branch.py).
RENAME_CHECK_BRANCHES == 0
RENAME_RENAME == 1
RENAME_FINISHED == 2

\* DeleteBranchAction states (rm_branch.py).
DELETE_CHECK_BRANCH == 0
DELETE_DELETE == 1
DELETE_FINISHED == 2

\* An exception left the constructor: the run is over, no state was reached.
ABORTED == -1
\* No machine of this kind has been constructed.
NOT_CONSTRUCTED == -2

(***************************************************************************)
(* Python objects as attribute dictionaries: a function whose domain is    *)
(* the set of attributes that are set.  getattr(o, k, None) is None        *)
(* exactly when k is not in the domain.                                    *)
(***************************************************************************)
None == [k \in {} |-> 0]
IsNone(o) == DOMAIN o = {}
Has(o, k) == k \in DOMAIN o
Put(o, k, v) == [y \in (DOMAIN o) \cup {k} |-> IF y = k THEN v ELSE o[y]]
Del(o, k) == [y \in (DOMAIN o) \ {k} |-> o[y]]

\* Metadata keys (utils.py).
LAST_SYNCED == "last_synced"
COMMIT_HASH == "commit_hash"
REMOTE == "remote"
BRANCH == "branch"
URL == "url"
ISSUE == "issue"
SUBJECT == "subject"
ISSUE_DESCRIPTION == "description"
LAST_COMMIT == "last_commit"
REMOTE_INFO == "remote_info"
REVIEW_INFO == "review_info"
SERVER == "server"
PRIVATE == "private"
CC == "cc"
REVIEWERS == "reviewers"
SYNC_HALTED == "sync_halted"
BRANCH_NAME == "_branch_name"
CODE_REVIEW == "codereview.appspot.com"

\* RemoteInfo._properties and ReviewInfo._properties, in declaration order.
RemoteInfoProperties == <<LAST_SYNCED, COMMIT_HASH, REMOTE, BRANCH, URL>>
ReviewInfoProperties == <<ISSUE, SUBJECT, ISSUE_DESCRIPTION, LAST_COMMIT>>
\* The properties declared with can_change=True.
CanChange == {LAST_SYNCED, SUBJECT, ISSUE_DESCRIPTION, LAST_COMMIT}

\* A setter that overwrites whatever is there.
SetPropertyOverwrites(obj, prop, value) ==
    [obj |-> Put(obj, prop, value), raised |-> FALSE]

\* The setter simple_update_property builds: [obj, raised].
SetProperty(obj, prop, value) ==
    IF ~Has(obj, prop) \/ prop \in CanChange
    THEN [obj |-> Put(obj, prop, value), raised |-> FALSE]
    ELSE IF obj[prop] # value
         THEN [obj |-> obj, raised |-> TRUE]
         ELSE [obj |-> obj, raised |-> FALSE]

\* _UpdateInfoBase.update: setattr for every property of `other` that is not
\* None, in _properties order; the first rejected setattr raises and leaves
\* the properties set before it changed.
RECURSIVE UpdateFrom(_, _, _, _)
UpdateFrom(self, other, props, i) ==
    IF i > Len(props) THEN [obj |-> self, raised |-> FALSE]
    ELSE IF ~Has(other, props[i]) THEN UpdateFrom(self, other, props, i + 1)
    ELSE LET r == SetProperty(self, props[i], other[props[i]])
         IN IF r.raised THEN r ELSE UpdateFrom(r.obj, other, props, i + 1)

\* An update that takes the delta for the whole linkage.
UpdateInfoReplaces(self, other, props) == [obj |-> other, raised |-> FALSE]

UpdateInfo(self, other, props) == UpdateFrom(self, other, props, 1)

\* to_dict that leaves out the last declared property.
InfoToDictDropsLast(obj, props) ==
    [p \in {props[i] : i \in {j \in 1..(Len(props) - 1) : Has(obj, props[j])}} |-> obj[p]]

\* _UpdateInfoBase.to_dict: the properties that are not None.
InfoToDict(obj, props) ==
    [p \in {props[i] : i \in {j \in 1..Len(props) : Has(obj, props[j])}} |-> obj[p]]

\* _UpdateInfoBase.__init__(**kwargs): setattr for every key given.
InfoFromDict(d, props) ==
    [p \in {props[i] : i \in {j \in 1..Len(props) : Has(d, props[j])}} |-> d[p]]

\* Linkage setters that replace the linkage already there.
SetLinkageReplaces(info, key, value, props) ==
    [obj |-> Put(info, key, value), raised |-> FALSE]

\* RietveldInfo.remote_info / review_info setters: assign when unset, otherwise
\* update the linkage already there.  [obj, raised].
SetLinkage(info, key, value, props) ==
    IF ~Has(info, key)
    THEN [obj |-> Put(info, key, value), raised |-> FALSE]
    ELSE LET r == UpdateInfo(info[key], value, props)
         IN [obj |-> Put(info, key, r.obj), raised |-> r.raised]

\* RietveldInfo.to_dict: nested linkages, server, and every attribute of
\* __dict__ whose name does not start with an underscore.
RietveldToDict(info) ==
    [k \in (DOMAIN info) \ {BRANCH_NAME} |->
        IF k = REMOTE_INFO THEN InfoToDict(info[k], RemoteInfoProperties)
        ELSE IF k = REVIEW_INFO THEN InfoToDict(info[k], ReviewInfoProperties)
        ELSE info[k]]

\* RietveldInfo.__init__(branch_name, **branch_info).
RietveldFromDict(branch_name, d) ==
    [k \in (DOMAIN d) \cup {BRANCH_NAME} |->
        IF k = BRANCH_NAME THEN branch_name
        ELSE IF k = REMOTE_INFO THEN InfoFromDict(d[k], RemoteInfoProperties)
        ELSE IF k = REVIEW_INFO THEN InfoFromDict(d[k], ReviewInfoProperties)
        ELSE d[k]]

\* RietveldInfo(branch_name): a fresh object.
NewRietveldInfo(branch_name) == Put(None, BRANCH_NAME, branch_name)

\* RietveldInfo.from_branch on a given store: None when the key is absent.
FromBranch(st, branch_name) ==
    IF branch_name \in DOMAIN st THEN RietveldFromDict(branch_name, st[branch_name])
    ELSE None

\* RietveldInfo.save on a given store: whole-record overwrite under the key of
\* the object's branch name.
Save(st, info) == Put(st, info[BRANCH_NAME], RietveldToDict(info))

\* remove that takes the whole section away.
RemoveRecordClears(st, branch_name) == None

\* RietveldInfo.remove on a given store (git config --unset of the key).
RemoveRecord(st, branch_name) == Del(st, branch_name)

\* RietveldInfo.remove, as the log names it: the key is unset, and the section
\* is removed when `git config --get-regexp` finds no key left in it.
RemoveEvents(st, branch_name) ==
    <<"remove_record">> \o (IF DOMAIN RemoveRecord(st, branch_name) = {}
                            THEN <<"remove_section">> ELSE <<>>)

\* in_review
InReview(info) == ~IsNone(info) /\ Has(info, REVIEW_INFO)

(***************************************************************************)
(* State.                                                                  *)
(***************************************************************************)
VARIABLES
    commits,      \* the commits there are: commits[c] = [parent, tree, msg]
    branches,     \* refs/heads: local branch name -> commit
    current,      \* the checked-out branch name, "HEAD" when detached
    detached,     \* the commit HEAD points at when detached, else 0
    index,        \* the content staged in the index / working tree
    clean,        \* `git diff --exit-code --quiet` exits 0
    remoteTip,    \* the tip of the tracked branch in the remote repository
    trackingRef,  \* refs/remotes/<remote>/<branch>, the local copy of that tip
    remoteUrl,    \* git config remote.<remote>.url
    store,        \* git config rietveld-branches.*: branch name -> saved dict
    rietveld,     \* the review service: issues handed out, closed, messages
    wf,           \* the command that is running, "idle" between commands
    state,        \* self.state of the Sync / Submit / Get-Info machine
    self,         \* the attributes of that machine
    kwargs,       \* the keyword arguments of the pending advance(**kwargs)
    xstate,       \* self.state of the Export machine
    xself,        \* the attributes of the Export machine
    xkw,          \* the keyword arguments of the Export machine's advance
    log,          \* what this run has printed, saved, sent and been answered, in order
    trace,        \* the states this run's machine has been in, in order
    snap,         \* repository and store as they were when the run started
    haltTip       \* the remote tip the last halted sync merged in, 0 when none has halted

repoVars == <<commits, branches, current, detached, index, clean, remoteTip, trackingRef,
             remoteUrl>>
machineVars == <<wf, state, self, kwargs>>
exportVars == <<xstate, xself, xkw>>
ghostVars == <<log, trace, snap, haltTip>>
vars == <<repoVars, store, rietveld, machineVars, exportVars, ghostVars>>

FEATURE == "feature"
ORIGIN == "origin"
MASTER == "master"
ORIGIN_URL == "https://github.com/org/repo.git"
HG_URL == "hg::https://code.google.com/p/project"
OTHER_URL == "https://example.com/repo.git"
RemoteUrls == {ORIGIN_URL, HG_URL, OTHER_URL}
DETACHED_HEAD == "HEAD"

(***************************************************************************)
(* The repository.  Commits are numbered in the order they are made; every *)
(* commit has one parent (0 for the root) and a tree, the set of changes   *)
(* its content holds.                                                      *)
(***************************************************************************)
NumCommits == Len(commits)

RECURSIVE Ancestors(_)
Ancestors(c) == IF c = 0 THEN {} ELSE {c} \cup Ancestors(commits[c].parent)

\* get_commits: git rev-list base..head
GetCommits(base_commit, head_commit) == Ancestors(head_commit) \ Ancestors(base_commit)

\* get_head_commit of the checked-out HEAD
HeadCommit == IF current = DETACHED_HEAD THEN detached ELSE branches[current]

\* branch_exists
BranchExists(branch) == branch \in DOMAIN branches

\* RemoteInfo.head_in_remote_branch: git rev-parse <remote>/<branch>
HeadInRemoteBranch == trackingRef

NewCommit(parent, tree, msg) == Append(commits, [parent |-> parent, tree |-> tree, msg |-> msg])

Snapshot == [branches |-> branches, current |-> current, index |-> index,
             clean |-> clean, trackingRef |-> trackingRef, remoteTip |-> remoteTip,
             commits |-> NumCommits, store |-> store, rietveld |-> rietveld]

\* A fresh clone of a remote at url, one branch checked out, nothing exported.
InitClone(url) ==
    /\ commits = <<[parent |-> 0, tree |-> {1}, msg |-> "init"]>>
    /\ branches = [b \in {FEATURE} |-> 1]
    /\ current = FEATURE
    /\ detached = 0
    /\ index = {1}
    /\ clean = TRUE
    /\ remoteTip = 1
    /\ trackingRef = 1
    /\ remoteUrl = url
    /\ store = None
    /\ rietveld = [issues |-> 0, closed |-> {}, messages |-> {}]
    /\ wf = "idle"
    /\ state = NOT_CONSTRUCTED
    /\ self = None
    /\ kwargs = None
    /\ xstate = NOT_CONSTRUCTED
    /\ xself = None
    /\ xkw = None
    /\ log = <<>>
    /\ trace = <<>>
    /\ snap = None
    /\ haltTip = 0

Init == InitClone(ORIGIN_URL)

\* The same for a clone of any of the kinds of remote.
InitAnyRemote == \E url \in RemoteUrls : InitClone(url)

(***************************************************************************)
(* What happens between commands: the user works in the clone, other       *)
(* people push to the remote.                                              *)
(***************************************************************************)
\* git commit -a on the checked-out branch (also: committing a resolution).
UserCommit ==
    /\ wf = "idle"
    /\ NumCommits < MaxCommits
    /\ commits' = NewCommit(HeadCommit, index \cup {NumCommits + 1}, "work")
    /\ branches' = [branches EXCEPT ![current] = NumCommits + 1]
    /\ index' = index \cup {NumCommits + 1}
    /\ clean' = TRUE
    /\ UNCHANGED <<remoteUrl, current, detached, remoteTip, trackingRef, store, rietveld,
                   machineVars, exportVars, ghostVars>>

\* An edit that is not committed.
UserEdit ==
    /\ wf = "idle"
    /\ clean
    /\ clean' = FALSE
    /\ UNCHANGED <<remoteUrl, commits, branches, current, detached, index, remoteTip, trackingRef,
                   store, rietveld, machineVars, exportVars, ghostVars>>

\* Somebody else lands a commit on the tracked remote branch.
RemoteAdvance ==
    /\ wf = "idle"
    /\ NumCommits < MaxCommits
    /\ commits' = NewCommit(remoteTip, commits[remoteTip].tree \cup {NumCommits + 1}, "upstream")
    /\ remoteTip' = NumCommits + 1
    /\ UNCHANGED <<remoteUrl, branches, current, detached, index, clean, trackingRef, store, rietveld,
                   machineVars, exportVars, ghostVars>>

\* git fetch run by hand: moves the remote-tracking reference.
UserFetch ==
    /\ wf = "idle"
    /\ trackingRef # remoteTip
    /\ trackingRef' = remoteTip
    /\ UNCHANGED <<remoteUrl, commits, branches, current, detached, index, clean, remoteTip,
                   store, rietveld, machineVars, exportVars, ghostVars>>

\* The run is over: the machine is in its terminal state, an exception left the
\* constructor, or (export on a dirty tree) no machine was constructed.
Finished ==
    \/ wf = "sync" /\ state = SYNC_FINISHED
    \/ wf = "submit" /\ state = SUBMIT_FINISHED
    \/ wf = "getinfo" /\ state = GETINFO_FINISHED
    \/ wf = "export" /\ xstate = EXPORT_FINISHED
    \/ wf = "rename" /\ state = RENAME_FINISHED
    \/ wf = "delete" /\ state = DELETE_FINISHED

Aborted ==
    \/ wf \in {"sync", "submit", "getinfo", "rename", "delete"} /\ state = ABORTED
    \/ wf = "export" /\ xstate = ABORTED

\* rename() and delete() return without setting a state: the constructor
\* returns with the machine in the state of the method that ran last.
Returned ==
    \/ wf = "rename" /\ state = RENAME_RENAME /\ \E i \in DOMAIN log : log[i] = "moving_review_info"
    \/ wf = "delete" /\ state = DELETE_DELETE /\ \E i \in DOMAIN log : log[i] = "deleting_review_info"

\* The command returns to the shell.
Exit ==
    /\ \/ Finished
       \/ Aborted
       \/ Returned
       \/ wf = "export" /\ xstate = NOT_CONSTRUCTED
    /\ wf' = "idle"
    /\ state' = NOT_CONSTRUCTED
    /\ self' = None
    /\ kwargs' = None
    /\ xstate' = NOT_CONSTRUCTED
    /\ xself' = None
    /\ xkw' = None
    /\ log' = <<>>
    /\ trace' = <<>>
    /\ snap' = None
    /\ UNCHANGED <<repoVars, store, rietveld, haltTip>>

\* self.state = s; self.advance()
Goto(s) == state' = s /\ trace' = Append(trace, s)
\* The same for the Export machine; run by sync, an exception in it leaves
\* sync's constructor as well.
XGoto(s) ==
    /\ xstate' = s
    /\ IF wf = "export" THEN trace' = Append(trace, s) /\ state' = state
       ELSE IF s = ABORTED THEN Goto(ABORTED)
       ELSE trace' = trace /\ state' = state

\* What save() writes, as the log names it.
SaveEvent(info) == IF Has(info, SYNC_HALTED) THEN "save_halted" ELSE "save"

(***************************************************************************)
(* The review service.                                                     *)
(***************************************************************************)
\* Answers of GET /api/<issue>?messages=true: a status and the parsed payload.
IssueMetadataAnswers ==
    { [status |-> 500, payload |-> None],
      [status |-> 200, payload |-> [reviewers |-> "r"]],
      [status |-> 200, payload |-> [reviewers |-> "r", cc |-> "c", subject |-> "edited",
                                    description |-> "edited"]] }

\* update_rietveld_metadata_from_issue(rietveld_info=info) when the service
\* answers `answer`: [raised, success, info, saved].
UpdateRietveldMetadataFromIssue(info, answer) ==
    IF IsNone(info) THEN [raised |-> FALSE, success |-> FALSE, info |-> info, saved |-> FALSE]
    ELSE IF ~Has(info, SERVER) \/ ~Has(info, REVIEW_INFO)
    THEN [raised |-> FALSE, success |-> FALSE, info |-> info, saved |-> FALSE]
    ELSE IF answer.status # 200 \/ ~Has(info[REVIEW_INFO], ISSUE)
    THEN [raised |-> TRUE, success |-> FALSE, info |-> info, saved |-> FALSE]
    ELSE LET md == answer.payload
         IN IF Has(md, REVIEWERS) /\ Has(md, CC) /\ Has(md, SUBJECT)
            THEN LET rv1 == Put(info[REVIEW_INFO], SUBJECT, md[SUBJECT])
                     rv2 == IF Has(md, ISSUE_DESCRIPTION)
                            THEN IF md[ISSUE_DESCRIPTION] # rv1[SUBJECT]
                                 THEN Put(rv1, ISSUE_DESCRIPTION, md[ISSUE_DESCRIPTION])
                                 ELSE Put(rv1, ISSUE_DESCRIPTION, "")
                            ELSE rv1
                     i1 == Put(Put(info, REVIEWERS, md[REVIEWERS]), CC, md[CC])
                 IN [raised |-> FALSE, success |-> TRUE,
                     info |-> Put(i1, REVIEW_INFO, rv2), saved |-> TRUE]
            ELSE [raised |-> FALSE, success |-> FALSE, info |-> info, saved |-> FALSE]

(***************************************************************************)
(* Export.                                                                 *)
(***************************************************************************)
\* get_commit_message_parts of a commit.
CommitSubject(c) == commits[c].msg
CommitDescription(c) == IF commits[c].msg = "work" THEN "details" ELSE ""

\* get_remote_info(current_branch): the remote's advertised tip must be in the
\* history of the branch.
RemoteInfoAvailable(branch) == remoteTip \in Ancestors(branches[branch])

\* get_remote_info that leaves last_synced of the new linkage unset.
GetRemoteInfoNoLastSynced ==
    [commit_hash |-> remoteTip, remote |-> ORIGIN, branch |-> MASTER, url |-> remoteUrl]

\* get_remote_info: the linkage of a branch that has none yet.
GetRemoteInfo ==
    [last_synced |-> remoteTip, commit_hash |-> remoteTip, remote |-> ORIGIN,
     branch |-> MASTER, url |-> remoteUrl]

\* ExportAction.__update_rietveld_info_from_args: [obj, raised].
UpdateRietveldInfoFromArgs(info, args) ==
    IF ~Has(args, SERVER) THEN [obj |-> info, raised |-> TRUE]
    ELSE LET r == SetProperty(info, SERVER, args[SERVER])
             i1 == IF Has(args, PRIVATE) THEN Put(r.obj, PRIVATE, args[PRIVATE]) ELSE r.obj
             i2 == IF Has(args, CC) THEN Put(i1, CC, args[CC]) ELSE i1
             i3 == IF Has(args, REVIEWERS) THEN Put(i2, REVIEWERS, args[REVIEWERS]) ELSE i2
         IN [obj |-> i3, raised |-> r.raised]

\* The commit the export message is counted from
\* (ExportAction.__get_commit_message_parts).
MessageBase(info) ==
    IF Has(info, REVIEW_INFO) THEN info[REVIEW_INFO][LAST_COMMIT]
    ELSE info[REMOTE_INFO][COMMIT_HASH]

\* ExportAction.__init__ on store st, up to its call of advance():
\* title "" stands for no title given, pick is the commit whose message the
\* user chooses.  [raised, store, xself, log].
ExportConstructor(st, branch, args, title, pick) ==
    LET head == branches[branch]
        loaded == FromBranch(st, branch)
        i0 == IF IsNone(loaded) THEN NewRietveldInfo(branch) ELSE loaded
        r1 == UpdateRietveldInfoFromArgs(i0, args)
        i2 == IF Has(r1.obj, REMOTE_INFO) THEN r1.obj
              ELSE Put(r1.obj, REMOTE_INFO, GetRemoteInfo)
        st1 == Save(st, i2)
        cs == GetCommits(MessageBase(i2), head)
        base == [branch |-> branch, current_head |-> head, rietveld_info |-> i2]
    IN  IF r1.raised \/ (~Has(r1.obj, REMOTE_INFO) /\ ~RemoteInfoAvailable(branch))
        THEN [raised |-> TRUE, store |-> st, xself |-> None, log |-> <<>>]
        ELSE IF title # ""
        THEN [raised |-> FALSE, store |-> st1, log |-> <<SaveEvent(i2)>>,
              xself |-> Put(Put(Put(base, "commit_subject", title), "commit_description", ""),
                            "commit_message_overridden", TRUE)]
        ELSE IF cs = {} \/ pick \notin cs
        THEN [raised |-> TRUE, store |-> st1, xself |-> None, log |-> <<SaveEvent(i2)>>]
        ELSE [raised |-> FALSE, store |-> st1, log |-> <<SaveEvent(i2)>>,
              xself |-> Put(Put(Put(base, "commit_subject", CommitSubject(pick)),
                                "commit_description", CommitDescription(pick)),
                            "commit_message_overridden", FALSE)]

\* The commits the user may be asked to choose the message from.
MessageChoices(st, branch) ==
    LET loaded == FromBranch(st, branch)
        base == IF InReview(loaded) THEN loaded[REVIEW_INFO][LAST_COMMIT]
                ELSE IF ~IsNone(loaded) /\ Has(loaded, REMOTE_INFO)
                     THEN loaded[REMOTE_INFO][COMMIT_HASH]
                     ELSE remoteTip
        cs == GetCommits(base, branches[branch])
    IN IF cs = {} THEN {0} ELSE cs

ExportArgs == [server |-> CODE_REVIEW, private |-> FALSE]

\* ExportAction.callback from the command line.
ExportCallback(title) ==
    /\ wf = "idle"
    /\ wf' = "export"
    /\ snap' = Snapshot
    /\ IF ~clean
       THEN /\ log' = <<"not_clean">>
            /\ UNCHANGED <<store, xstate, xself, trace>>
       ELSE \E pick \in MessageChoices(store, current) :
            LET r == ExportConstructor(store, current, ExportArgs, title, pick)
            IN /\ store' = r.store
               /\ log' = r.log
               /\ xself' = r.xself
               /\ xstate' = IF r.raised THEN ABORTED ELSE EXPORT_STARTING
               /\ trace' = <<xstate'>>
    /\ UNCHANGED <<repoVars, rietveld, state, self, kwargs, xkw, haltTip>>

ExportLive == wf = "export" \/ (wf = "sync" /\ state = SYNC_EXPORT)

\* assess_review that always takes the Create-Issue path.
AssessReviewNextAlwaysUploads(info) == EXPORT_UPLOADING_ISSUE

\* assess_review
AssessReviewNext(info) ==
    IF InReview(info) THEN EXPORT_UPDATING_ISSUE ELSE EXPORT_UPLOADING_ISSUE

ExportAssessReview ==
    /\ ExportLive /\ xstate = EXPORT_STARTING
    /\ XGoto(AssessReviewNext(xself.rietveld_info))
    /\ UNCHANGED <<repoVars, store, rietveld, wf, self, kwargs, xself, xkw, log, snap, haltTip>>

\* upload_issue: upload.py creates the issue, or raises.
ExportUploadIssue(ok) ==
    /\ ExportLive /\ xstate = EXPORT_UPLOADING_ISSUE
    /\ IF ok
       THEN /\ rietveld.issues < MaxIssues
            /\ rietveld' = [rietveld EXCEPT !.issues = @ + 1]
            /\ log' = Append(log, "upload")
            /\ xkw' = [issue |-> rietveld.issues + 1,
                       initial_subject |-> xself.commit_subject,
                       initial_description |-> xself.commit_description]
            /\ XGoto(EXPORT_UPDATING_METADATA)
       ELSE /\ XGoto(ABORTED)
            /\ UNCHANGED <<rietveld, log, xkw>>
    /\ UNCHANGED <<repoVars, store, wf, self, kwargs, xself, snap, haltTip>>

\* update_issue: answer is what the user types at the empty-patch prompt.
ExportUpdateIssue(answer, ok) ==
    /\ ExportLive /\ xstate = EXPORT_UPDATING_ISSUE
    /\ LET asked == xself.rietveld_info[REVIEW_INFO][LAST_COMMIT] = xself.current_head
           do_upload == IF asked THEN answer ELSE TRUE
       IN /\ asked \/ answer
          /\ do_upload \/ ok
          /\ log' = log \o (IF asked THEN <<"ask_empty_patch">> ELSE <<>>)
                        \o (IF do_upload /\ ok THEN <<"upload">> ELSE <<>>)
          /\ XGoto(IF do_upload /\ ~ok THEN ABORTED ELSE EXPORT_UPDATING_METADATA)
    /\ xkw' = None
    /\ UNCHANGED <<repoVars, store, rietveld, wf, self, kwargs, xself, snap, haltTip>>

\* update_metadata's ReviewInfo with subject and description interchanged.
NewReviewInfoSwapsSeed(current_head, kw) ==
    IF Has(kw, "issue") /\ Has(kw, "initial_subject")
    THEN [last_commit |-> current_head, issue |-> kw.issue, subject |-> kw.initial_description,
          description |-> kw.initial_subject]
    ELSE [last_commit |-> current_head]

\* The ReviewInfo update_metadata builds from advance's keyword arguments.
NewReviewInfo(current_head, kw) ==
    IF Has(kw, "issue") /\ Has(kw, "initial_subject")
    THEN [last_commit |-> current_head, issue |-> kw.issue, subject |-> kw.initial_subject,
          description |-> IF kw.initial_description # kw.initial_subject
                          THEN kw.initial_description ELSE ""]
    ELSE [last_commit |-> current_head]

\* update_metadata
ExportUpdateMetadata(answer) ==
    /\ ExportLive /\ xstate = EXPORT_UPDATING_METADATA
    /\ LET r == SetLinkage(xself.rietveld_info, REVIEW_INFO,
                           NewReviewInfo(xself.current_head, xkw), ReviewInfoProperties)
           st1 == Save(store, r.obj)
           u == UpdateRietveldMetadataFromIssue(r.obj, answer)
       IN IF r.raised
          THEN /\ XGoto(ABORTED)
               /\ xself' = [xself EXCEPT !.rietveld_info = r.obj]
               /\ UNCHANGED <<store, log>>
          ELSE /\ xself' = [xself EXCEPT !.rietveld_info = u.info]
               /\ store' = IF u.saved THEN Save(st1, u.info) ELSE st1
               /\ log' = log \o <<SaveEvent(r.obj)>>
                             \o (IF u.saved THEN <<SaveEvent(u.info)>> ELSE <<>>)
                             \o (IF u.raised THEN <<>>
                                 ELSE IF u.success THEN <<"metadata_ok">>
                                 ELSE <<"metadata_failed">>)
               /\ XGoto(IF u.raised THEN ABORTED ELSE EXPORT_FINISHED)
    /\ xkw' = None
    /\ UNCHANGED <<repoVars, rietveld, wf, self, kwargs, snap, haltTip>>

(***************************************************************************)
(* Sync.                                                                   *)
(***************************************************************************)
\* SyncAction.__init__: reads server and private off the loaded record before
\* it tests the record for None.
SyncCallback(in_continue) ==
    /\ wf = "idle"
    /\ wf' = "sync"
    /\ LET info == FromBranch(store, current)
       IN /\ self' = [branch |-> current, continue |-> in_continue, rietveld_info |-> info]
          /\ state' = IF IsNone(info) \/ ~Has(info, PRIVATE) THEN ABORTED ELSE SYNC_STARTING
    /\ trace' = <<state'>>
    /\ log' = <<>>
    /\ snap' = Snapshot
    /\ UNCHANGED <<repoVars, store, rietveld, kwargs, exportVars, haltTip>>

\* check_environment: the state after a clean tree was found.
CheckEnvironmentNext(in_continue) ==
    IF in_continue THEN SYNC_CHECK_CONTINUE ELSE SYNC_CHECK_NEW

SyncCheckEnvironment ==
    /\ wf = "sync" /\ state = SYNC_STARTING
    /\ IF ~clean
       THEN /\ log' = Append(log, "not_clean")
            /\ Goto(SYNC_FINISHED)
            /\ self' = self
       ELSE IF ~Has(self.rietveld_info, REVIEW_INFO)
       THEN /\ Goto(ABORTED)
            /\ UNCHANGED <<log, self>>
       ELSE /\ self' = Put(Put(self, "last_commit", self.rietveld_info[REVIEW_INFO][LAST_COMMIT]),
                           "sync_halted",
                           IF Has(self.rietveld_info, SYNC_HALTED)
                           THEN self.rietveld_info[SYNC_HALTED] ELSE FALSE)
            /\ Goto(CheckEnvironmentNext(self.continue))
            /\ log' = log
    /\ UNCHANGED <<repoVars, store, rietveld, wf, kwargs, exportVars, snap, haltTip>>

\* check_continue that lets any number of new commits through.
CheckContinueNextAnyCommits(sync_halted, n) ==
    IF ~sync_halted THEN SYNC_FINISHED
    ELSE IF n = 0 THEN SYNC_FINISHED
    ELSE SYNC_EXPORT

\* check_continue: the next state, from the halted flag and the number of
\* commits since the last exported commit.
CheckContinueNext(sync_halted, n) ==
    IF ~sync_halted THEN SYNC_FINISHED
    ELSE IF n = 0 THEN SYNC_FINISHED
    ELSE IF n = 1 THEN SYNC_EXPORT
    ELSE SYNC_FINISHED

SyncCheckContinue ==
    /\ wf = "sync" /\ state = SYNC_CHECK_CONTINUE
    /\ LET n == Cardinality(GetCommits(self.last_commit, HeadCommit))
           next == CheckContinueNext(self.sync_halted, n)
       IN /\ Goto(next)
          /\ self' = IF next = SYNC_EXPORT THEN Put(self, "last_synced", HeadInRemoteBranch)
                     ELSE self
          /\ log' = IF ~self.sync_halted THEN Append(log, "no_halted_sync")
                    ELSE IF n = 0 THEN Append(log, "please_commit")
                    ELSE IF n = 1 THEN log
                    ELSE Append(log, "too_many_commits")
    /\ UNCHANGED <<repoVars, store, rietveld, wf, kwargs, exportVars, snap, haltTip>>

\* check_new_sync that does not compare the head with the last-exported commit.
CheckNewSyncNextIgnoresHead(sync_halted, head_commit, last_commit) ==
    IF sync_halted THEN SYNC_FINISHED ELSE SYNC_FETCH_REMOTE

\* check_new_sync: the next state.
CheckNewSyncNext(sync_halted, head_commit, last_commit) ==
    IF sync_halted THEN SYNC_FINISHED
    ELSE IF head_commit # last_commit THEN SYNC_FINISHED
    ELSE SYNC_FETCH_REMOTE

SyncCheckNewSync ==
    /\ wf = "sync" /\ state = SYNC_CHECK_NEW
    /\ Goto(CheckNewSyncNext(self.sync_halted, branches[self.branch], self.last_commit))
    /\ log' = IF self.sync_halted THEN Append(log, "previously_halted")
              ELSE IF branches[self.branch] # self.last_commit
                   THEN Append(log, "unexported_changes")
                   ELSE log
    /\ UNCHANGED <<repoVars, store, rietveld, wf, self, kwargs, exportVars, snap, haltTip>>

\* fetch_remote that does not compare the fetched tip with last-synced.
FetchRemoteNextAlwaysMerges(new_head_in_remote, last_synced) == SYNC_MERGE_REMOTE_IN

\* fetch_remote: the next state.
FetchRemoteNext(new_head_in_remote, last_synced) ==
    IF new_head_in_remote = last_synced THEN SYNC_FINISHED ELSE SYNC_MERGE_REMOTE_IN

\* fetch_remote: git fetch succeeds (fetched) or raises.
SyncFetchRemote(fetched) ==
    /\ wf = "sync" /\ state = SYNC_FETCH_REMOTE
    /\ IF fetched
       THEN /\ trackingRef' = remoteTip
            /\ log' = log \o <<"fetch">>
                          \o (IF remoteTip = self.rietveld_info[REMOTE_INFO][LAST_SYNCED]
                              THEN <<"no_new_changes">> ELSE <<>>)
            /\ Goto(FetchRemoteNext(remoteTip, self.rietveld_info[REMOTE_INFO][LAST_SYNCED]))
            /\ self' = Put(self, "last_synced", remoteTip)
       ELSE /\ Goto(ABORTED)
            /\ UNCHANGED <<trackingRef, log, self>>
    /\ UNCHANGED <<remoteUrl, commits, branches, current, detached, index, clean, remoteTip,
                   store, rietveld, wf, kwargs, exportVars, snap, haltTip>>

\* merge: git merge --squash <last_synced> exits 0 (and the result is
\* committed) or reports a conflict.  With nothing to merge, git commit has
\* nothing to commit and raises.
SyncMerge(conflict) ==
    /\ wf = "sync" /\ state = SYNC_MERGE_REMOTE_IN
    /\ LET head == HeadCommit
           merged == commits[head].tree \cup commits[self.last_synced].tree
       IN IF merged = commits[head].tree
          THEN /\ ~conflict
               /\ Goto(ABORTED)
               /\ log' = Append(log, "merge")
               /\ UNCHANGED <<commits, branches, index, clean>>
          ELSE IF conflict
          THEN /\ index' = merged
               /\ clean' = FALSE
               /\ log' = Append(log, "merge")
               /\ Goto(SYNC_ALERT_CONFLICT)
               /\ UNCHANGED <<commits, branches>>
          ELSE /\ NumCommits < MaxCommits
               /\ commits' = NewCommit(head, merged, "sync")
               /\ branches' = [branches EXCEPT ![current] = NumCommits + 1]
               /\ index' = merged
               /\ clean' = clean
               /\ log' = log \o <<"merge", "commit">>
               /\ Goto(SYNC_EXPORT)
    /\ UNCHANGED <<remoteUrl, current, detached, remoteTip, trackingRef, store, rietveld, wf, self,
                   kwargs, exportVars, snap, haltTip>>

\* alert: what it prints and writes, in statement order.
AlertEvents == <<"report_conflict", "save_halted">>

\* alert that forgets the last-synced commit of the record it saves.
AlertInfoDropsSynced(info) ==
    Put(Put(info, REMOTE_INFO, Put(info[REMOTE_INFO], LAST_SYNCED, 0)), SYNC_HALTED, TRUE)

\* alert: the record it saves.
AlertInfo(info) == Put(info, SYNC_HALTED, TRUE)

SyncAlert ==
    /\ wf = "sync" /\ state = SYNC_ALERT_CONFLICT
    /\ self' = [self EXCEPT !.rietveld_info = AlertInfo(@)]
    /\ store' = Save(store, AlertInfo(self.rietveld_info))
    /\ log' = log \o AlertEvents
    /\ kwargs' = [remove_halted |-> FALSE]
    /\ haltTip' = self.last_synced
    /\ Goto(SYNC_CLEAN_UP)
    /\ UNCHANGED <<repoVars, rietveld, wf, exportVars, snap>>

\* export_to_review that saves the record without the new last-synced.
ExportToReviewInfoStale(info, last_synced) == info

\* export_to_review: the record it saves before it runs the export.
ExportToReviewInfo(info, last_synced) ==
    Put(info, REMOTE_INFO, Put(info[REMOTE_INFO], LAST_SYNCED, last_synced))

\* The arguments sync hands to the export (__clean_args_for_export, __init__).
SyncExportArgs(info) ==
    LET a == [private |-> info[PRIVATE]]
    IN IF Has(info, SERVER) THEN Put(a, SERVER, info[SERVER]) ELSE a

\* export_to_review, up to the point where the Export machine it constructs
\* starts to advance.
SyncExportToReview ==
    /\ wf = "sync" /\ state = SYNC_EXPORT /\ xstate = NOT_CONSTRUCTED
    /\ LET i1 == ExportToReviewInfo(self.rietveld_info, self.last_synced)
           st1 == Save(store, i1)
       IN /\ self' = [self EXCEPT !.rietveld_info = i1]
          /\ IF ~clean
             THEN /\ store' = st1
                  /\ log' = log \o <<SaveEvent(i1), "exporting", "not_clean">>
                  /\ Goto(ABORTED)
                  /\ UNCHANGED <<xstate, xself>>
             ELSE \E pick \in MessageChoices(st1, current) :
                  LET r == ExportConstructor(st1, current, SyncExportArgs(i1), "", pick)
                  IN /\ store' = r.store
                     /\ log' = log \o <<SaveEvent(i1), "exporting">> \o r.log
                     /\ xself' = r.xself
                     /\ IF r.raised THEN XGoto(ABORTED)
                        ELSE XGoto(EXPORT_STARTING)
    /\ UNCHANGED <<repoVars, rietveld, wf, kwargs, xkw, snap, haltTip>>

\* export_to_review, after the Export machine has finished: adopt its record.
SyncExportDone ==
    /\ wf = "sync" /\ state = SYNC_EXPORT /\ xstate = EXPORT_FINISHED
    /\ self' = [self EXCEPT !.rietveld_info = xself.rietveld_info]
    /\ Goto(SYNC_CLEAN_UP)
    /\ kwargs' = None
    /\ xstate' = NOT_CONSTRUCTED
    /\ xself' = None
    /\ xkw' = None
    /\ UNCHANGED <<repoVars, store, rietveld, wf, log, snap, haltTip>>

\* remove_key that deletes the key and does not save.
RemoveKeyUnsaved(info, key) ==
    IF ~Has(info, key) THEN [info |-> info, saved |-> FALSE]
    ELSE [info |-> Del(info, key), saved |-> FALSE]

\* RietveldInfo.remove_key: [info, saved].
RemoveKey(info, key) ==
    IF ~Has(info, key) THEN [info |-> info, saved |-> FALSE]
    ELSE [info |-> Del(info, key), saved |-> TRUE]

\* clean_up that ignores remove_halted.
CleanUpRemoveHaltedAlways(kw) == TRUE

\* clean_up(remove_halted=True)
CleanUpRemoveHalted(kw) == IF Has(kw, "remove_halted") THEN kw.remove_halted ELSE TRUE

SyncCleanUp ==
    /\ wf = "sync" /\ state = SYNC_CLEAN_UP
    /\ LET r == IF CleanUpRemoveHalted(kwargs) THEN RemoveKey(self.rietveld_info, SYNC_HALTED)
                ELSE [info |-> self.rietveld_info, saved |-> FALSE]
       IN /\ self' = [self EXCEPT !.rietveld_info = r.info]
          /\ store' = IF r.saved THEN Save(store, r.info) ELSE store
          /\ log' = IF r.saved THEN Append(log, SaveEvent(r.info)) ELSE log
    /\ Goto(SYNC_FINISHED)
    /\ kwargs' = None
    /\ UNCHANGED <<repoVars, rietveld, wf, exportVars, snap, haltTip>>

(***************************************************************************)
(* Submit.                                                                 *)
(***************************************************************************)
BRANCH_NAME_TEMPLATE == "review-"

\* SubmitAction.__init__: reads the issue and the remote off the loaded record
\* without testing it for None.
SubmitCallback(do_close) ==
    /\ wf = "idle"
    /\ wf' = "submit"
    /\ LET info == FromBranch(store, current)
       IN IF IsNone(info) \/ ~Has(info, REVIEW_INFO) \/ ~Has(info, REMOTE_INFO)
          THEN /\ state' = ABORTED
               /\ self' = [branch |-> current]
          ELSE /\ state' = SUBMIT_CHECK_ENVIRONMENT
               /\ self' = [branch |-> current, rietveld_info |-> info,
                           issue |-> info[REVIEW_INFO][ISSUE], do_close |-> do_close,
                           remote |-> info[REMOTE_INFO][REMOTE],
                           remote_branch |-> info[REMOTE_INFO][BRANCH],
                           last_synced |-> info[REMOTE_INFO][LAST_SYNCED],
                           head |-> branches[current]]
    /\ trace' = <<state'>>
    /\ log' = <<>>
    /\ snap' = Snapshot
    /\ UNCHANGED <<repoVars, store, rietveld, kwargs, exportVars, haltTip>>

SubmitCheckEnvironment ==
    /\ wf = "submit" /\ state = SUBMIT_CHECK_ENVIRONMENT
    /\ Goto(IF clean THEN SUBMIT_VERIFY_APPROVAL ELSE SUBMIT_FINISHED)
    /\ log' = IF clean THEN log ELSE Append(log, "not_clean")
    /\ UNCHANGED <<repoVars, store, rietveld, wf, self, kwargs, exportVars, snap, haltTip>>

\* verify_approval that goes on without an approval marker.
VerifyApprovalNextSkipsMarker(approval) ==
    IF approval = "error" THEN ABORTED ELSE SUBMIT_UPDATE_FROM_METADATA

\* verify_approval: the service raises ("error"), or tells whether some
\* message of the issue carries the approval marker.
VerifyApprovalNext(approval) ==
    IF approval = "error" THEN ABORTED
    ELSE IF approval = "approved" THEN SUBMIT_UPDATE_FROM_METADATA
    ELSE SUBMIT_FINISHED

SubmitVerifyApproval(approval) ==
    /\ wf = "submit" /\ state = SUBMIT_VERIFY_APPROVAL
    /\ Goto(VerifyApprovalNext(approval))
    /\ log' = IF approval = "error" THEN log ELSE Append(log, approval)
    /\ UNCHANGED <<repoVars, store, rietveld, wf, self, kwargs, exportVars, snap, haltTip>>

SubmitUpdateFromMetadata(answer) ==
    /\ wf = "submit" /\ state = SUBMIT_UPDATE_FROM_METADATA
    /\ LET u == UpdateRietveldMetadataFromIssue(self.rietveld_info, answer)
       IN /\ self' = [self EXCEPT !.rietveld_info = u.info]
          /\ store' = IF u.saved THEN Save(store, u.info) ELSE store
          /\ log' = log \o (IF u.saved THEN <<SaveEvent(u.info)>> ELSE <<>>)
                        \o (IF u.raised \/ u.success THEN <<>> ELSE <<"metadata_failed">>)
          /\ Goto(IF u.raised THEN ABORTED
                  ELSE IF u.success THEN SUBMIT_ENTER_DETACHED_STATE
                  ELSE SUBMIT_FINISHED)
    /\ UNCHANGED <<repoVars, rietveld, wf, kwargs, exportVars, snap, haltTip>>

\* enter_detached_state: git checkout <branch>@{0}
SubmitEnterDetachedState(ok) ==
    /\ wf = "submit" /\ state = SUBMIT_ENTER_DETACHED_STATE
    /\ IF ok
       THEN /\ current' = DETACHED_HEAD
            /\ detached' = branches[self.branch]
            /\ kwargs' = None
            /\ Goto(SUBMIT_SET_HISTORY_FROM_REMOTE)
       ELSE /\ kwargs' = [error_message |-> "checkout"]
            /\ Goto(SUBMIT_NOTIFY_FAILURE)
            /\ UNCHANGED <<current, detached>>
    /\ UNCHANGED <<remoteUrl, commits, branches, index, clean, remoteTip, trackingRef, store, rietveld,
                   wf, self, exportVars, log, snap, haltTip>>

\* set_history_from_remote: git reset --soft <last_synced>
SubmitSetHistoryFromRemote(ok) ==
    /\ wf = "submit" /\ state = SUBMIT_SET_HISTORY_FROM_REMOTE
    /\ IF ok
       THEN /\ detached' = self.last_synced
            /\ kwargs' = None
            /\ Goto(SUBMIT_CREATE_BRANCH)
       ELSE /\ kwargs' = [error_message |-> "reset"]
            /\ Goto(SUBMIT_NOTIFY_FAILURE)
            /\ UNCHANGED detached
    /\ UNCHANGED <<remoteUrl, commits, branches, current, index, clean, remoteTip, trackingRef, store,
                   rietveld, wf, self, exportVars, log, snap, haltTip>>

\* create_branch: append "_0" until no branch has the name.
RECURSIVE DummyBranchName(_)
DummyBranchName(review_branch) ==
    IF BranchExists(review_branch) THEN DummyBranchName(review_branch \o "_0")
    ELSE review_branch

\* create_branch that takes the first name without looking.
SubmitCreateBranchFirstName(ok) ==
    /\ wf = "submit" /\ state = SUBMIT_CREATE_BRANCH
    /\ LET review_branch == BRANCH_NAME_TEMPLATE \o ToString(self.issue)
       IN IF ok
          THEN /\ branches' = Put(branches, review_branch, HeadCommit)
               /\ current' = review_branch
               /\ detached' = 0
               /\ self' = Put(self, "review_branch", review_branch)
               /\ kwargs' = None
               /\ Goto(SUBMIT_COMMIT)
          ELSE /\ kwargs' = [error_message |-> "checkout -b"]
               /\ Goto(SUBMIT_NOTIFY_FAILURE)
               /\ UNCHANGED <<branches, current, detached, self>>
    /\ UNCHANGED <<remoteUrl, commits, index, clean, remoteTip, trackingRef, store, rietveld, wf,
                   exportVars, log, snap, haltTip>>

\* create_branch: git checkout -b <review_branch>
SubmitCreateBranch(ok) ==
    /\ wf = "submit" /\ state = SUBMIT_CREATE_BRANCH
    /\ LET review_branch == DummyBranchName(BRANCH_NAME_TEMPLATE \o ToString(self.issue))
       IN IF ok
          THEN /\ branches' = Put(branches, review_branch, HeadCommit)
               /\ current' = review_branch
               /\ detached' = 0
               /\ self' = Put(self, "review_branch", review_branch)
               /\ kwargs' = None
               /\ Goto(SUBMIT_COMMIT)
          ELSE /\ kwargs' = [error_message |-> "checkout -b"]
               /\ Goto(SUBMIT_NOTIFY_FAILURE)
               /\ UNCHANGED <<branches, current, detached, self>>
    /\ UNCHANGED <<remoteUrl, commits, index, clean, remoteTip, trackingRef, store, rietveld, wf,
                   exportVars, log, snap, haltTip>>

\* commit made on top of the head of the review branch, history included.
SubmitCommitOnBranchHead(ok) ==
    /\ wf = "submit" /\ state = SUBMIT_COMMIT
    /\ IF ok
       THEN /\ NumCommits < MaxCommits
            /\ commits' = NewCommit(self.head, index, "land")
            /\ branches' = [branches EXCEPT ![current] = NumCommits + 1]
            /\ kwargs' = None
            /\ Goto(SUBMIT_PUSHING)
       ELSE /\ kwargs' = [error_message |-> "commit"]
            /\ Goto(SUBMIT_NOTIFY_FAILURE)
            /\ UNCHANGED <<commits, branches>>
    /\ UNCHANGED <<remoteUrl, current, detached, index, clean, remoteTip, trackingRef, store, rietveld,
                   wf, self, exportVars, log, snap, haltTip>>

\* commit: git commit -m <message> of what is staged, on top of HEAD; it fails
\* when nothing is staged.
SubmitCommit(ok) ==
    /\ wf = "submit" /\ state = SUBMIT_COMMIT
    /\ IF ok
       THEN /\ NumCommits < MaxCommits
            /\ index # commits[HeadCommit].tree
            /\ commits' = NewCommit(HeadCommit, index, "land")
            /\ branches' = [branches EXCEPT ![current] = NumCommits + 1]
            /\ kwargs' = None
            /\ Goto(SUBMIT_PUSHING)
       ELSE /\ kwargs' = [error_message |-> "commit"]
            /\ Goto(SUBMIT_NOTIFY_FAILURE)
            /\ UNCHANGED <<commits, branches>>
    /\ UNCHANGED <<remoteUrl, current, detached, index, clean, remoteTip, trackingRef, store, rietveld,
                   wf, self, exportVars, log, snap, haltTip>>

\* git push accepts a commit the remote tip is an ancestor of.
FastForward(commit) == remoteTip \in Ancestors(commit)
TIP_BEHIND_HINT == "tip_behind"

\* push_commit: git push <remote> <review_branch>:<remote_branch>
SubmitPushCommit(ok) ==
    /\ wf = "submit" /\ state = SUBMIT_PUSHING
    /\ IF ok
       THEN /\ FastForward(branches[self.review_branch])
            /\ remoteTip' = branches[self.review_branch]
            /\ trackingRef' = branches[self.review_branch]
            /\ log' = Append(log, "push")
            /\ kwargs' = [success |-> TRUE]
            /\ Goto(SUBMIT_CLEAN_UP_LOCAL)
       ELSE /\ kwargs' = [error_message |-> IF FastForward(branches[self.review_branch])
                                            THEN "push" ELSE TIP_BEHIND_HINT]
            /\ Goto(SUBMIT_NOTIFY_FAILURE)
            /\ UNCHANGED <<remoteTip, trackingRef, log>>
    /\ UNCHANGED <<remoteUrl, commits, branches, current, detached, index, clean, store, rietveld,
                   wf, self, exportVars, snap, haltTip>>

SubmitNotifyFailure ==
    /\ wf = "submit" /\ state = SUBMIT_NOTIFY_FAILURE
    /\ log' = Append(log, IF kwargs.error_message = TIP_BEHIND_HINT
                          THEN "run_sync" ELSE "unknown_error")
    /\ kwargs' = [success |-> FALSE]
    /\ Goto(SUBMIT_CLEAN_UP_LOCAL)
    /\ UNCHANGED <<repoVars, store, rietveld, wf, self, exportVars, snap, haltTip>>

\* clean_up_local that takes every run for a successful one.
CleanUpLocalSuccessAlways(kw) == TRUE

\* clean_up_local(success=False)
CleanUpLocalSuccess(kw) == IF Has(kw, "success") THEN kw.success ELSE FALSE

\* clean_up_local that leaves the dummy branch behind.
CleanUpLocalBranchesKeepsDummy(brs, me, success) ==
    IF success THEN Put(Del(brs, me.branch), me.branch, trackingRef) ELSE brs

\* clean_up_local: the branches it leaves.  On success the review branch is
\* deleted and made again at the remote-tracking reference; the dummy branch
\* is deleted when this run made one.
CleanUpLocalBranches(brs, me, success) ==
    LET b1 == IF success THEN Put(Del(brs, me.branch), me.branch, trackingRef) ELSE brs
    IN IF Has(me, "review_branch") THEN Del(b1, me.review_branch) ELSE b1

\* clean_up_local that forgets RietveldInfo.remove.
CleanUpLocalStoreKeepsRecord(st, me, success) == st

\* clean_up_local: the store it leaves.
CleanUpLocalStore(st, me, success) ==
    IF success THEN RemoveRecord(st, me.branch) ELSE st

\* clean_up_local that goes back to notify_failure after a failed run.
CleanUpLocalNextRenotifies(success) ==
    IF success THEN SUBMIT_CLEAN_UP_REVIEW ELSE SUBMIT_NOTIFY_FAILURE

\* clean_up_local: the state after it.
CleanUpLocalNext(success) == IF success THEN SUBMIT_CLEAN_UP_REVIEW ELSE SUBMIT_FINISHED

SubmitCleanUpLocal ==
    /\ wf = "submit" /\ state = SUBMIT_CLEAN_UP_LOCAL
    /\ LET success == CleanUpLocalSuccess(kwargs)
           brs == CleanUpLocalBranches(branches, self, success)
       IN /\ branches' = brs
          /\ store' = CleanUpLocalStore(store, self, success)
          /\ current' = self.branch
          /\ detached' = 0
          /\ index' = commits[brs[self.branch]].tree
          /\ clean' = TRUE
          /\ log' = IF success THEN log \o RemoveEvents(store, self.branch) ELSE log
          /\ Goto(CleanUpLocalNext(success))
    /\ kwargs' = None
    /\ UNCHANGED <<remoteUrl, commits, remoteTip, trackingRef, rietveld, wf, self, exportVars,
                   snap, haltTip>>

\* RepositoryInfo.from_remote: the registered class whose pattern matches the
\* remote URL, "None" when none does.
RepositoryInfoFromRemote(url) ==
    IF url = ORIGIN_URL THEN "GithubRepositoryInfo"
    ELSE IF url = HG_URL THEN "GoogleCodehostingHgRepositoryInfo"
    ELSE "None"

\* __add_commit_link: what can happen for a repository info.  Without one the
\* method returns at once; otherwise the post is accepted or rejected
\* (urllib2.HTTPError, caught); commit_link of a Mercurial repository raises
\* GitRvException when the commit is not in the git-mapfile.
CommitLinkOutcomes(repository_info) ==
    IF repository_info = "None" THEN {"link_skipped"}
    ELSE IF repository_info = "GithubRepositoryInfo" THEN {"link_posted", "link_failed"}
    ELSE {"link_posted", "link_failed", "no_mapping"}

\* clean_up_review: link is the outcome of __add_commit_link; closing the
\* issue is accepted or rejected.
SubmitCleanUpReview(link, closed) ==
    /\ wf = "submit" /\ state = SUBMIT_CLEAN_UP_REVIEW
    /\ link \in CommitLinkOutcomes(RepositoryInfoFromRemote(self.rietveld_info[REMOTE_INFO][URL]))
    /\ (self.do_close /\ link # "no_mapping") \/ closed
    /\ IF link = "no_mapping"
       THEN /\ Goto(ABORTED)
            /\ UNCHANGED <<rietveld, log>>
       ELSE /\ rietveld' = [rietveld EXCEPT
                             !.messages = IF link = "link_posted"
                                          THEN @ \cup {<<self.issue, branches[self.branch]>>}
                                          ELSE @,
                             !.closed = IF self.do_close /\ closed THEN @ \cup {self.issue}
                                        ELSE @]
            /\ log' = log \o (IF link = "link_skipped" THEN <<>> ELSE <<link>>)
                          \o (IF ~self.do_close THEN <<>>
                              ELSE IF closed THEN <<"issue_closed">> ELSE <<"close_failed">>)
            /\ Goto(SUBMIT_FINISHED)
    /\ UNCHANGED <<repoVars, store, wf, self, kwargs, exportVars, snap, haltTip>>

(***************************************************************************)
(* Get-Info.                                                               *)
(***************************************************************************)
GetInfoCallback(pull) ==
    /\ wf = "idle"
    /\ wf' = "getinfo"
    /\ self' = [branch |-> current, pull |-> pull]
    /\ state' = GETINFO_GET_INFO
    /\ trace' = <<state'>>
    /\ log' = <<>>
    /\ snap' = Snapshot
    /\ UNCHANGED <<repoVars, store, rietveld, kwargs, exportVars, haltTip>>

GetInfoGetInfo ==
    /\ wf = "getinfo" /\ state = GETINFO_GET_INFO
    /\ kwargs' = [rietveld_info |-> FromBranch(store, self.branch)]
    /\ Goto(IF self.pull THEN GETINFO_PULL ELSE GETINFO_PRINT_INFO)
    /\ UNCHANGED <<repoVars, store, rietveld, wf, self, exportVars, log, snap, haltTip>>

GetInfoPull(answer) ==
    /\ wf = "getinfo" /\ state = GETINFO_PULL
    /\ LET u == UpdateRietveldMetadataFromIssue(kwargs.rietveld_info, answer)
       IN /\ kwargs' = [rietveld_info |-> u.info]
          /\ store' = IF u.saved THEN Save(store, u.info) ELSE store
          /\ log' = log \o (IF u.saved THEN <<SaveEvent(u.info)>> ELSE <<>>)
                        \o (IF u.raised THEN <<>>
                            ELSE IF u.success THEN <<"metadata_ok">> ELSE <<"metadata_failed">>)
          /\ Goto(IF u.raised THEN ABORTED ELSE GETINFO_PRINT_INFO)
    /\ UNCHANGED <<repoVars, rietveld, wf, self, exportVars, snap, haltTip>>

GetInfoPrintInfo ==
    /\ wf = "getinfo" /\ state = GETINFO_PRINT_INFO
    /\ log' = Append(log, IF IsNone(kwargs.rietveld_info) THEN "no_review_data" ELSE "info")
    /\ kwargs' = None
    /\ Goto(GETINFO_FINISHED)
    /\ UNCHANGED <<repoVars, store, rietveld, wf, self, exportVars, snap, haltTip>>

Next ==
    \/ UserCommit
    \/ UserEdit
    \/ RemoteAdvance
    \/ UserFetch
    \/ Exit
    \/ \E title \in {"", "title"} : ExportCallback(title)
    \/ ExportAssessReview
    \/ \E ok \in BOOLEAN : ExportUploadIssue(ok)
    \/ \E answer \in BOOLEAN, ok \in BOOLEAN : ExportUpdateIssue(answer, ok)
    \/ \E answer \in IssueMetadataAnswers : ExportUpdateMetadata(answer)
    \/ \E in_continue \in BOOLEAN : SyncCallback(in_continue)
    \/ SyncCheckEnvironment
    \/ SyncCheckContinue
    \/ SyncCheckNewSync
    \/ \E fetched \in BOOLEAN : SyncFetchRemote(fetched)
    \/ \E conflict \in BOOLEAN : SyncMerge(conflict)
    \/ SyncAlert
    \/ SyncExportToReview
    \/ SyncExportDone
    \/ SyncCleanUp
    \/ \E do_close \in BOOLEAN : SubmitCallback(do_close)
    \/ SubmitCheckEnvironment
    \/ \E approval \in {"error", "approved", "not_approved"} : SubmitVerifyApproval(approval)
    \/ \E answer \in IssueMetadataAnswers : SubmitUpdateFromMetadata(answer)
    \/ \E ok \in BOOLEAN : SubmitEnterDetachedState(ok)
    \/ \E ok \in BOOLEAN : SubmitSetHistoryFromRemote(ok)
    \/ \E ok \in BOOLEAN : SubmitCreateBranch(ok)
    \/ \E ok \in BOOLEAN : SubmitCommit(ok)
    \/ \E ok \in BOOLEAN : SubmitPushCommit(ok)
    \/ SubmitNotifyFailure
    \/ SubmitCleanUpLocal
    \/ \E link \in {"link_skipped", "link_posted", "link_failed", "no_mapping"},
          closed \in BOOLEAN : SubmitCleanUpReview(link, closed)
    \/ \E pull \in BOOLEAN : GetInfoCallback(pull)
    \/ GetInfoGetInfo
    \/ \E answer \in IssueMetadataAnswers : GetInfoPull(answer)
    \/ GetInfoPrintInfo

Spec == Init /\ [][Next]_vars

\* Exports and submits of a clone of any kind of remote.
NextSubmit ==
    \/ UserCommit
    \/ UserEdit
    \/ Exit
    \/ \E title \in {"", "title"} : ExportCallback(title)
    \/ ExportAssessReview
    \/ \E ok \in BOOLEAN : ExportUploadIssue(ok)
    \/ \E answer \in BOOLEAN, ok \in BOOLEAN : ExportUpdateIssue(answer, ok)
    \/ \E answer \in IssueMetadataAnswers : ExportUpdateMetadata(answer)
    \/ \E do_close \in BOOLEAN : SubmitCallback(do_close)
    \/ SubmitCheckEnvironment
    \/ \E approval \in {"error", "approved", "not_approved"} : SubmitVerifyApproval(approval)
    \/ \E answer \in IssueMetadataAnswers : SubmitUpdateFromMetadata(answer)
    \/ \E ok \in BOOLEAN : SubmitEnterDetachedState(ok)
    \/ \E ok \in BOOLEAN : SubmitSetHistoryFromRemote(ok)
    \/ \E ok \in BOOLEAN : SubmitCreateBranch(ok)
    \/ \E ok \in BOOLEAN : SubmitCommit(ok)
    \/ \E ok \in BOOLEAN : SubmitPushCommit(ok)
    \/ SubmitNotifyFailure
    \/ SubmitCleanUpLocal
    \/ \E link \in {"link_skipped", "link_posted", "link_failed", "no_mapping"},
          closed \in BOOLEAN : SubmitCleanUpReview(link, closed)

SpecSubmit == InitAnyRemote /\ [][NextSubmit]_vars

(***************************************************************************)
(* Rename and Delete.                                                      *)
(***************************************************************************)
\* RenameBranchAction.__init__
RenameCallback(source_branch, target_branch) ==
    /\ wf = "idle"
    /\ wf' = "rename"
    /\ self' = [source_branch |-> source_branch, target_branch |-> target_branch]
    /\ state' = RENAME_CHECK_BRANCHES
    /\ trace' = <<state'>>
    /\ log' = <<>>
    /\ snap' = Snapshot
    /\ UNCHANGED <<repoVars, store, rietveld, kwargs, exportVars, haltTip>>

\* check_branches: what it prints, "" when the branch can be renamed.
CheckBranchesReport(source_branch, target_branch) ==
    IF BranchExists(target_branch) THEN "target_exists"
    ELSE IF ~BranchExists(source_branch) THEN "no_branch"
    ELSE IF source_branch = current THEN "current_branch"
    ELSE IF IsNone(FromBranch(store, source_branch)) THEN "no_review"
    ELSE ""

RenameCheckBranches ==
    /\ wf = "rename" /\ state = RENAME_CHECK_BRANCHES
    /\ LET report == CheckBranchesReport(self.source_branch, self.target_branch)
       IN IF report = ""
          THEN /\ kwargs' = [rietveld_info |-> FromBranch(store, self.source_branch)]
               /\ Goto(RENAME_RENAME)
               /\ log' = log
          ELSE /\ kwargs' = None
               /\ Goto(RENAME_FINISHED)
               /\ log' = Append(log, report)
    /\ UNCHANGED <<repoVars, store, rietveld, wf, self, exportVars, snap, haltTip>>

\* rename that leaves the record under the source name as well.
RenameStoreCopies(st, info, source_branch, target_branch) ==
    Save(st, Put(info, BRANCH_NAME, target_branch))

\* rename: the store after the record was saved under the target name and
\* removed under the source name.
RenameStore(st, info, source_branch, target_branch) ==
    RemoveRecord(Save(st, Put(info, BRANCH_NAME, target_branch)), source_branch)

\* rename: git branch -m succeeds (ok) or raises; the method sets no state.
RenameRename(ok) ==
    /\ wf = "rename" /\ state = RENAME_RENAME /\ ~Returned
    /\ IF ok
       THEN /\ branches' = Put(Del(branches, self.source_branch), self.target_branch,
                               branches[self.source_branch])
            /\ store' = RenameStore(store, kwargs.rietveld_info, self.source_branch,
                                    self.target_branch)
            /\ log' = log \o <<"renaming_branch", "moving_review_info", "save">>
                          \o RemoveEvents(Save(store, Put(kwargs.rietveld_info, BRANCH_NAME,
                                                          self.target_branch)),
                                          self.source_branch)
            /\ UNCHANGED <<state, trace>>
       ELSE /\ Goto(ABORTED)
            /\ log' = Append(log, "renaming_branch")
            /\ UNCHANGED <<branches, store>>
    /\ kwargs' = None
    /\ UNCHANGED <<remoteUrl, commits, current, detached, index, clean, remoteTip, trackingRef,
                   rietveld, wf, self, exportVars, snap, haltTip>>

\* DeleteBranchAction.__init__
DeleteCallback(branch) ==
    /\ wf = "idle"
    /\ wf' = "delete"
    /\ self' = [branch |-> branch]
    /\ state' = DELETE_CHECK_BRANCH
    /\ trace' = <<state'>>
    /\ log' = <<>>
    /\ snap' = Snapshot
    /\ UNCHANGED <<repoVars, store, rietveld, kwargs, exportVars, haltTip>>

\* check_branch asking for a record only.
CheckBranchNextAnyRecord(branch) ==
    IF ~BranchExists(branch) THEN DELETE_FINISHED
    ELSE IF branch = current THEN ABORTED
    ELSE IF IsNone(FromBranch(store, branch)) THEN DELETE_FINISHED
    ELSE DELETE_DELETE

\* check_branch: the state it sets.  For the checked-out branch the message
\* is formatted with an argument it has no place for, which raises.
CheckBranchNext(branch) ==
    IF ~BranchExists(branch) THEN DELETE_FINISHED
    ELSE IF branch = current THEN ABORTED
    ELSE IF ~InReview(FromBranch(store, branch)) THEN DELETE_FINISHED
    ELSE DELETE_DELETE

DeleteCheckBranch ==
    /\ wf = "delete" /\ state = DELETE_CHECK_BRANCH
    /\ Goto(CheckBranchNext(self.branch))
    /\ log' = IF ~BranchExists(self.branch) THEN Append(log, "no_branch")
              ELSE IF self.branch = current THEN log
              ELSE IF ~InReview(FromBranch(store, self.branch)) THEN Append(log, "no_review")
              ELSE log
    /\ UNCHANGED <<repoVars, store, rietveld, wf, self, kwargs, exportVars, snap, haltTip>>

\* delete: git branch -D succeeds (ok) or raises; the method sets no state.
DeleteDelete(ok) ==
    /\ wf = "delete" /\ state = DELETE_DELETE /\ ~Returned
    /\ IF ok
       THEN /\ branches' = Del(branches, self.branch)
            /\ store' = RemoveRecord(store, self.branch)
            /\ log' = log \o <<"deleting_branch", "deleting_review_info">>
                          \o RemoveEvents(store, self.branch)
            /\ UNCHANGED <<state, trace>>
       ELSE /\ Goto(ABORTED)
            /\ log' = Append(log, "deleting_branch")
            /\ UNCHANGED <<branches, store>>
    /\ UNCHANGED <<remoteUrl, commits, current, detached, index, clean, remoteTip, trackingRef,
                   rietveld, wf, self, kwargs, exportVars, snap, haltTip>>

(***************************************************************************)
(* The record library called directly: linkage updates, save and load.     *)
(***************************************************************************)
\* Values a property of a linkage may be given.
PropertyValues(prop) ==
    IF prop \in {LAST_SYNCED, COMMIT_HASH, LAST_COMMIT, ISSUE} THEN {1, 2}
    ELSE IF prop = REMOTE THEN {ORIGIN, "upstream"}
    ELSE IF prop = BRANCH THEN {MASTER, "dev"}
    ELSE IF prop = URL THEN {ORIGIN_URL, HG_URL}
    ELSE IF prop = SUBJECT THEN {"work", "edited"}
    ELSE {"", "details"}

SeqRange(sq) == {sq[i] : i \in 1..Len(sq)}

\* RemoteInfo(**kwargs) / ReviewInfo(**kwargs) for every choice of keyword
\* arguments: the properties left out are None.
RECURSIVE LinkageObjectsFrom(_, _)
LinkageObjectsFrom(props, i) ==
    IF i > Len(props) THEN {None}
    ELSE LET rest == LinkageObjectsFrom(props, i + 1)
         IN rest \cup {Put(o, props[i], v) : o \in rest, v \in PropertyValues(props[i])}

LinkageObjects(props) == LinkageObjectsFrom(props, 1)

\* The two kinds of linkage.
LinkageKinds == {RemoteInfoProperties, ReviewInfoProperties}

\* linkage.update(other), as the one call of a process, for a linkage and a
\* delta of the same kind.
UpdateCall ==
    /\ wf = "idle" /\ log = <<>>
    /\ \E props \in LinkageKinds :
          \E linkage \in LinkageObjects(props), other \in LinkageObjects(props) :
             LET r == UpdateInfo(linkage, other, props)
             IN /\ self' = r.obj
                /\ log' = IF r.raised THEN <<"update", "raised">> ELSE <<"update">>
                /\ kwargs' = [self |-> linkage, other |-> other]
    /\ UNCHANGED <<repoVars, store, rietveld, wf, state, exportVars, trace, snap, haltTip>>

NextLinkage == UpdateCall

SpecLinkage == Init /\ [][NextLinkage]_vars

\* One value for every attribute a record or a linkage can hold.
SampleValue(key) ==
    IF key \in {LAST_SYNCED, COMMIT_HASH, LAST_COMMIT, ISSUE} THEN 1
    ELSE IF key = REMOTE THEN ORIGIN
    ELSE IF key = BRANCH THEN MASTER
    ELSE IF key = URL THEN ORIGIN_URL
    ELSE IF key = SUBJECT THEN "work"
    ELSE IF key = ISSUE_DESCRIPTION THEN "details"
    ELSE IF key = SERVER THEN CODE_REVIEW
    ELSE IF key = PRIVATE THEN FALSE
    ELSE IF key = SYNC_HALTED THEN TRUE
    ELSE "r"

\* The linkages of a kind with any combination of set and unset properties.
SampleLinkages(props) ==
    {[p \in S |-> SampleValue(p)] : S \in SUBSET SeqRange(props)}

\* The attributes of a record that are not linkages.
SimpleKeys == {SERVER, PRIVATE, REVIEWERS, SYNC_HALTED}

\* RietveldInfo objects of a branch with any combination of simple
\* attributes, with or without each linkage.
RietveldInfoObjects(branch_name) ==
    LET simple == {[k \in S \cup {BRANCH_NAME} |->
                       IF k = BRANCH_NAME THEN branch_name ELSE SampleValue(k)] :
                   S \in SUBSET SimpleKeys}
        remote == simple \cup {Put(o, REMOTE_INFO, l) :
                                 o \in simple, l \in SampleLinkages(RemoteInfoProperties)}
    IN remote \cup {Put(o, REVIEW_INFO, l) :
                      o \in remote, l \in SampleLinkages(ReviewInfoProperties)}

\* rietveld_info.save() called on an object made in the process.
SaveCall ==
    /\ wf = "idle" /\ log = <<>>
    /\ \E info \in RietveldInfoObjects(FEATURE) :
          /\ self' = info
          /\ store' = Save(store, info)
    /\ log' = <<"save">>
    /\ UNCHANGED <<repoVars, rietveld, wf, state, kwargs, exportVars, trace, snap, haltTip>>

\* RietveldInfo.from_branch(branch_name) called after it.
FromBranchCall ==
    /\ wf = "idle" /\ log = <<"save">>
    /\ \E branch_name \in {FEATURE, "topic"} :
          /\ kwargs' = [branch_name |-> branch_name, saved |-> self]
          /\ self' = FromBranch(store, branch_name)
    /\ log' = <<"save", "from_branch">>
    /\ UNCHANGED <<repoVars, store, rietveld, wf, state, exportVars, trace, snap, haltTip>>

NextRecords == SaveCall \/ FromBranchCall

SpecRecords == Init /\ [][NextRecords]_vars

(***************************************************************************)
(* Rename and Delete run in a clone with several branches.                 *)
(***************************************************************************)
BranchNames == {FEATURE, "topic", "draft"}

\* The commit a branch of the clone points at, also the number of its issue.
BranchCommit(b) == IF b = FEATURE THEN 1 ELSE IF b = "topic" THEN 2 ELSE 3

\* The record an export of branch b leaves: with a Remote Linkage only when
\* it stopped before its first upload ("remote"), with both linkages
\* otherwise ("full").
BranchRecord(b, kind) ==
    LET remote == [p \in SeqRange(RemoteInfoProperties) |-> SampleValue(p)]
        review == [p \in SeqRange(ReviewInfoProperties) |->
                      IF p \in {ISSUE, LAST_COMMIT} THEN BranchCommit(b) ELSE SampleValue(p)]
        base == Put(Put(Put(NewRietveldInfo(b), SERVER, CODE_REVIEW), PRIVATE, FALSE),
                   REMOTE_INFO, remote)
    IN IF kind = "remote" THEN base ELSE Put(base, REVIEW_INFO, review)

\* A clone with some of the branches, any of them checked out, and records
\* under some of the names (a record outlives a branch deleted with git).
InitBranches ==
    /\ commits = [c \in 1..3 |-> [parent |-> IF c = 1 THEN 0 ELSE 1, tree |-> 1..c,
                                  msg |-> IF c = 1 THEN "init" ELSE "work"]]
    /\ \E existing \in (SUBSET BranchNames) \ {{}} :
          /\ branches = [b \in existing |-> BranchCommit(b)]
          /\ current \in existing
    /\ detached = 0
    /\ index = commits[branches[current]].tree
    /\ clean = TRUE
    /\ remoteTip = 1
    /\ trackingRef = 1
    /\ remoteUrl = ORIGIN_URL
    /\ \E recorded \in SUBSET BranchNames :
          \E kind \in [recorded -> {"remote", "full"}] :
             store = [b \in recorded |-> RietveldToDict(BranchRecord(b, kind[b]))]
    /\ rietveld = [issues |-> 3, closed |-> {}, messages |-> {}]
    /\ wf = "idle"
    /\ state = NOT_CONSTRUCTED
    /\ self = None
    /\ kwargs = None
    /\ xstate = NOT_CONSTRUCTED
    /\ xself = None
    /\ xkw = None
    /\ log = <<>>
    /\ trace = <<>>
    /\ snap = None
    /\ haltTip = 0

NextBranches ==
    \/ \E source_branch \in BranchNames, target_branch \in BranchNames :
          RenameCallback(source_branch, target_branch)
    \/ RenameCheckBranches
    \/ \E ok \in BOOLEAN : RenameRename(ok)
    \/ \E branch \in BranchNames : DeleteCallback(branch)
    \/ DeleteCheckBranch
    \/ \E ok \in BOOLEAN : DeleteDelete(ok)
    \/ Exit

SpecBranches == InitBranches /\ [][NextBranches]_vars

(***************************************************************************)
(* Submit in a clone that has branches named like a landing branch.        *)
(***************************************************************************)
\* Names create_branch tries first for issue 1.
LandingNames == {"review-1", "review-1_0"}

\* A clone as in Init where branches with such names were made before.
InitLanding ==
    /\ commits = <<[parent |-> 0, tree |-> {1}, msg |-> "init"]>>
    /\ \E taken \in SUBSET LandingNames : branches = [b \in {FEATURE} \cup taken |-> 1]
    /\ current = FEATURE
    /\ detached = 0
    /\ index = {1}
    /\ clean = TRUE
    /\ remoteTip = 1
    /\ trackingRef = 1
    /\ remoteUrl = ORIGIN_URL
    /\ store = None
    /\ rietveld = [issues |-> 0, closed |-> {}, messages |-> {}]
    /\ wf = "idle"
    /\ state = NOT_CONSTRUCTED
    /\ self = None
    /\ kwargs = None
    /\ xstate = NOT_CONSTRUCTED
    /\ xself = None
    /\ xkw = None
    /\ log = <<>>
    /\ trace = <<>>
    /\ snap = None
    /\ haltTip = 0

SpecLanding == InitLanding /\ [][NextSubmit]_vars

(***************************************************************************)
(* Submit when a command of clean_up_local exits with an error.            *)
(***************************************************************************)
\* clean_up_local: the commands it runs through capture_command, in order.
CleanUpLocalSteps(me, success) ==
    (IF success THEN <<"delete_branch", "track_branch", "remove_record">> ELSE <<>>)
    \o <<"checkout", "reset">>
    \o (IF Has(me, "review_branch") THEN <<"delete_dummy">> ELSE <<>>)

\* What one of the commands does to the clone r = [branches, store, current,
\* detached].
CleanUpLocalStep(r, me, step) ==
    IF step = "delete_branch" THEN [r EXCEPT !.branches = Del(r.branches, me.branch)]
    ELSE IF step = "track_branch"
         THEN [r EXCEPT !.branches = Put(r.branches, me.branch, trackingRef)]
    ELSE IF step = "remove_record" THEN [r EXCEPT !.store = RemoveRecord(r.store, me.branch)]
    ELSE IF step = "checkout" THEN [r EXCEPT !.current = me.branch, !.detached = 0]
    ELSE IF step = "delete_dummy"
         THEN [r EXCEPT !.branches = Del(r.branches, me.review_branch)]
    ELSE r

\* The clone after the first n commands.
RECURSIVE CleanUpLocalAfter(_, _, _, _)
CleanUpLocalAfter(r, me, steps, n) ==
    IF n = 0 THEN r
    ELSE CleanUpLocalStep(CleanUpLocalAfter(r, me, steps, n - 1), me, steps[n])

\* clean_up_local when its command number failed exits with an error:
\* capture_command raises, the commands before it have run, those after it
\* have not.
SubmitCleanUpLocalRaises(failed) ==
    /\ wf = "submit" /\ state = SUBMIT_CLEAN_UP_LOCAL
    /\ LET success == CleanUpLocalSuccess(kwargs)
           steps == CleanUpLocalSteps(self, success)
       IN /\ failed \in DOMAIN steps
          /\ LET r == CleanUpLocalAfter([branches |-> branches, store |-> store,
                                         current |-> current, detached |-> detached],
                                        self, steps, failed - 1)
             IN /\ branches' = r.branches
                /\ store' = r.store
                /\ current' = r.current
                /\ detached' = r.detached
                /\ index' = IF r.current = current THEN index
                            ELSE commits[r.branches[r.current]].tree
                /\ clean' = IF r.current = current THEN clean ELSE TRUE
    /\ Goto(ABORTED)
    /\ UNCHANGED <<remoteUrl, commits, remoteTip, trackingRef, rietveld, wf, self, kwargs,
                   exportVars, log, snap, haltTip>>

\* clean_up_local has raised in this run.
CleanUpLocalRaised ==
    /\ wf = "submit" /\ state = ABORTED
    /\ \E i \in DOMAIN trace : trace[i] = SUBMIT_CLEAN_UP_LOCAL

\* The clone such a run leaves is not worked in again.
NextFaults ==
    \/ ~CleanUpLocalRaised /\ NextSubmit
    \/ \E failed \in 1..6 : SubmitCleanUpLocalRaises(failed)

SpecFaults == Init /\ [][NextFaults]_vars

(***************************************************************************)
(* Properties.                                                             *)
(***************************************************************************)
InSeq(x, sq) == \E i \in 1..Len(sq) : sq[i] = x

\* The persisted halted-sync flag of a branch in a store.
HaltedIn(st, branch) ==
    /\ branch \in DOMAIN st
    /\ Has(st[branch], SYNC_HALTED)
    /\ st[branch][SYNC_HALTED]

\* A submit run in which a command of Enter-Detached-State, Replay-Remote-History,
\* Create-Landing-Branch, Commit-Squashed or Push has failed.
SubmitFailedAfterRefresh ==
    wf = "submit" /\ InSeq(SUBMIT_NOTIFY_FAILURE, trace)

\* C1: a submit run that failed after Refresh-Metadata finishes with the
\* original branch checked out and at the commit it had before the run, the
\* working tree clean, no landing branch left (no branch that was not there
\* before), and the Branch Record of the branch still in the store.
C1_FailedSubmitRollsBack ==
    (SubmitFailedAfterRefresh /\ state = SUBMIT_FINISHED) =>
        /\ current = self.branch
        /\ detached = 0
        /\ branches[self.branch] = snap.branches[self.branch]
        /\ (Has(self, "review_branch") => ~BranchExists(self.review_branch))
        /\ DOMAIN branches = DOMAIN snap.branches
        /\ clean
        /\ self.branch \in DOMAIN store

\* C1 witness: a failed push (after the landing branch and the squashed commit
\* were made) has been cleaned up and the machine has finished.
C1_Witness ==
    /\ SubmitFailedAfterRefresh /\ state = SUBMIT_FINISHED
    /\ Has(self, "review_branch")
    /\ InSeq(SUBMIT_PUSHING, trace)

\* A submit run whose push succeeded and whose Clean-Up-Local has run.
SubmitCleanedUpAfterPush ==
    /\ wf = "submit"
    /\ InSeq("push", log)
    /\ state \in {SUBMIT_CLEAN_UP_REVIEW, SUBMIT_FINISHED}

\* C2: after Clean-Up-Local of a submit whose push succeeded the original
\* branch exists, is checked out and points at the tip of the tracked remote
\* branch, which is the landed commit; the landing branch is gone and the
\* store has no record under the original branch name.
C2_LandedSubmitCleansUp ==
    SubmitCleanedUpAfterPush =>
        /\ BranchExists(self.branch)
        /\ current = self.branch
        /\ branches[self.branch] = trackingRef
        /\ trackingRef = remoteTip
        /\ commits[remoteTip].msg = "land"
        /\ commits[remoteTip].tree = commits[self.head].tree
        /\ ~BranchExists(self.review_branch)
        /\ self.branch \notin DOMAIN store

\* C2 witness: Clean-Up-Local has just run after a successful push.
C2_Witness ==
    /\ SubmitCleanedUpAfterPush
    /\ state = SUBMIT_CLEAN_UP_REVIEW
    /\ self.branch \in DOMAIN snap.store

\* C3: on a merge conflict the halted flag is saved to the store before the
\* conflict is reported to the user, and the run ends with the flag persisted.
C3_HaltedSavedBeforeReport ==
    wf = "sync" =>
        /\ \A i \in 1..Len(log) :
              log[i] = "report_conflict" => \E j \in 1..(i - 1) : log[j] = "save_halted"
        /\ (state = SYNC_FINISHED /\ InSeq(SYNC_ALERT_CONFLICT, trace)) =>
              HaltedIn(store, self.branch)

IsPrefix(a, b) == Len(a) <= Len(b) /\ \A i \in 1..Len(a) : a[i] = b[i]

\* The number of commits since the last-exported commit of a branch.
CommitsSinceExport(st, brs, branch) ==
    Cardinality(GetCommits(st[branch][REVIEW_INFO][LAST_COMMIT], brs[branch]))

\* A sync run with the continuation flag on a branch whose stored record had
\* the halted flag when the run started.
ContinuationOfHalted ==
    wf = "sync" /\ self.continue /\ HaltedIn(snap.store, self.branch)

\* Such a run started on a clean tree with exactly one commit since the
\* last-exported commit.
ResumableContinuation ==
    /\ ContinuationOfHalted
    /\ snap.clean
    /\ CommitsSinceExport(snap.store, snap.branches, self.branch) = 1

ContinuationPath ==
    <<SYNC_STARTING, SYNC_CHECK_CONTINUE, SYNC_EXPORT, SYNC_CLEAN_UP, SYNC_FINISHED>>

\* C4: a continuation on a clean, halted branch with exactly one commit since
\* the last-exported commit walks Start, Check-Continuing, Export-Synced,
\* Clean-Up, Finished (leaving that path only when the Export sub-workflow
\* raises), never enters Fetch-Remote or Merge, and when it finishes the
\* stored record has no halted flag.
C4_ContinuationResumes ==
    ResumableContinuation =>
        /\ \/ IsPrefix(trace, ContinuationPath)
           \/ /\ state = ABORTED
              /\ xstate = ABORTED
              /\ trace = <<SYNC_STARTING, SYNC_CHECK_CONTINUE, SYNC_EXPORT, ABORTED>>
        /\ ~InSeq(SYNC_FETCH_REMOTE, trace)
        /\ ~InSeq(SYNC_MERGE_REMOTE_IN, trace)
        /\ ~InSeq("fetch", log)
        /\ ~InSeq("merge", log)
        /\ state = SYNC_FINISHED =>
              /\ trace = ContinuationPath
              /\ self.branch \in DOMAIN store
              /\ ~Has(store[self.branch], SYNC_HALTED)

\* C4 witness: such a continuation has finished, having uploaded.
C4_Witness ==
    /\ ResumableContinuation
    /\ state = SYNC_FINISHED
    /\ InSeq("upload", log)

\* C5: a continuation on a halted branch with zero, or with two or more,
\* commits since the last-exported commit never enters Export-Synced, uploads
\* nothing, and leaves last-synced, the last-exported commit and the halted
\* flag of the stored record as they were.
C5_ContinuationRefused ==
    (ContinuationOfHalted
       /\ CommitsSinceExport(snap.store, snap.branches, self.branch) # 1) =>
        /\ ~InSeq(SYNC_EXPORT, trace)
        /\ xstate = NOT_CONSTRUCTED
        /\ ~InSeq("upload", log)
        /\ rietveld = snap.rietveld
        /\ store[self.branch][REMOTE_INFO][LAST_SYNCED]
              = snap.store[self.branch][REMOTE_INFO][LAST_SYNCED]
        /\ store[self.branch][REVIEW_INFO][LAST_COMMIT]
              = snap.store[self.branch][REVIEW_INFO][LAST_COMMIT]
        /\ HaltedIn(store, self.branch)
        /\ store = snap.store

\* C5 witness: a continuation on a clean tree with two commits since the
\* last-exported commit has finished.
C5_Witness ==
    /\ ContinuationOfHalted
    /\ snap.clean
    /\ CommitsSinceExport(snap.store, snap.branches, self.branch) >= 2
    /\ state = SYNC_FINISHED
    /\ InSeq("too_many_commits", log)

\* C6: a continuation that completes its export leaves last-synced in the
\* stored record equal to the remote tip the halted run had fetched and
\* merged, whatever happened to the repository in between.
C6_ContinuationKeepsHaltTip ==
    (ContinuationOfHalted /\ InSeq(SYNC_EXPORT, trace) /\ state = SYNC_FINISHED) =>
        store[self.branch][REMOTE_INFO][LAST_SYNCED] = haltTip

\* export_to_review has saved the record and called the Export sub-workflow.
SyncExportStarted ==
    /\ wf = "sync"
    /\ InSeq(SYNC_EXPORT, trace)
    /\ (xstate # NOT_CONSTRUCTED \/ state # SYNC_EXPORT)

SaveEvents == {"save", "save_halted"}

\* C7: from the moment the Export sub-workflow of a sync run starts, whether
\* the run came from Merge or from Check-Continuing and whether or not the
\* export then fails, the stored record's last-synced is the remote tip the
\* run carries (after a fetch: the tip fetched from the remote); the save
\* precedes the start of the export and every upload.
C7_LastSyncedSavedBeforeExport ==
    SyncExportStarted =>
        /\ self.branch \in DOMAIN store
        /\ store[self.branch][REMOTE_INFO][LAST_SYNCED] = self.last_synced
        /\ self.last_synced = trackingRef
        /\ (~self.continue => self.last_synced = remoteTip)
        /\ \E k \in 1..Len(log) :
              /\ log[k] = "exporting"
              /\ \E i \in 1..(k - 1) : log[i] \in SaveEvents
              /\ \A j \in 1..k : log[j] # "upload"

\* C7 witness: the export of a sync that merged a new remote tip has raised;
\* the stored last-synced is no longer what it was when the run started.
C7_Witness ==
    /\ SyncExportStarted
    /\ ~self.continue
    /\ xstate = ABORTED
    /\ store[self.branch][REMOTE_INFO][LAST_SYNCED]
          # snap.store[self.branch][REMOTE_INFO][LAST_SYNCED]

\* The clean-up of a continuation whose Export sub-workflow has completed.
ContinuationCleanUp ==
    wf = "sync" /\ self.continue /\ state = SYNC_CLEAN_UP /\ InSeq(SYNC_EXPORT, trace)

\* The Clean-Up-Local of a submit whose push succeeded.
LandedCleanUpLocal ==
    wf = "submit" /\ state = SUBMIT_CLEAN_UP_LOCAL /\ CleanUpLocalSuccess(kwargs)

\* C8 as stated: a persisted halted flag stays set in the store in every step
\* of every workflow, except the clean-up of a sync continuation that has
\* completed its Export sub-workflow.
C8_ClearedOnlyByContinuation ==
    [][\A b \in DOMAIN store :
          HaltedIn(store, b) => (HaltedIn(store', b) \/ ContinuationCleanUp)]_vars

\* C8 amended: a persisted halted flag stays set in the store in every step
\* of every workflow, except the clean-up of a sync continuation that has
\* completed its Export sub-workflow, and except that a submit whose push
\* succeeded removes the whole record of the branch.
C8_ClearedByContinuationOrRemoved ==
    [][\A b \in DOMAIN store :
          HaltedIn(store, b) =>
              \/ HaltedIn(store', b)
              \/ ContinuationCleanUp
              \/ (LandedCleanUpLocal /\ b = self.branch /\ b \notin DOMAIN store')]_vars

\* C8 witness: an export on a halted branch has uploaded and finished, and the
\* flag is still in the store.
C8_Witness ==
    /\ wf = "export"
    /\ xstate = EXPORT_FINISHED
    /\ InSeq("upload", log)
    /\ HaltedIn(snap.store, current)
    /\ HaltedIn(store, current)

\* A sync run without the continuation flag whose fetch found the remote
\* tip equal to the last-synced of the record it started with.
FetchedNothingNew ==
    /\ wf = "sync" /\ ~self.continue
    /\ Has(self, "last_synced")
    /\ self.last_synced = snap.store[self.branch][REMOTE_INFO][LAST_SYNCED]

\* C9: when the fetched tip equals the record's last-synced the run goes from
\* Fetch-Remote straight to Finished: no merge, no commit, no export, and the
\* stored record (and the review service) unchanged.
C9_NothingNewFinishes ==
    FetchedNothingNew =>
        /\ state = SYNC_FINISHED
        /\ trace = <<SYNC_STARTING, SYNC_CHECK_NEW, SYNC_FETCH_REMOTE, SYNC_FINISHED>>
        /\ ~InSeq("merge", log) /\ ~InSeq("commit", log) /\ ~InSeq("upload", log)
        /\ xstate = NOT_CONSTRUCTED
        /\ NumCommits = snap.commits
        /\ branches = snap.branches
        /\ index = snap.index /\ clean = snap.clean
        /\ store = snap.store
        /\ rietveld = snap.rietveld

\* C9 witness: such a run has fetched, found nothing new and finished.
C9_Witness ==
    /\ FetchedNothingNew
    /\ state = SYNC_FINISHED
    /\ InSeq("no_new_changes", log)

\* The conditions of Check-New, on the repository and store as they were when
\* the run started.
NewSyncAdmissible ==
    /\ snap.clean
    /\ self.branch \in DOMAIN snap.store
    /\ Has(snap.store[self.branch], REVIEW_INFO)
    /\ ~HaltedIn(snap.store, self.branch)
    /\ snap.branches[self.branch] = snap.store[self.branch][REVIEW_INFO][LAST_COMMIT]

\* C10: a sync run without the continuation flag enters Fetch-Remote only
\* when the tree was clean, the halted flag unset and the branch head equal
\* to the last-exported commit; otherwise it never fetches and the
\* repository, the store and the review service stay as they were.
C10_NewSyncGuard ==
    (wf = "sync" /\ ~self.continue) =>
        /\ InSeq(SYNC_FETCH_REMOTE, trace) => NewSyncAdmissible
        /\ ~NewSyncAdmissible =>
              /\ Snapshot = snap
              /\ ~InSeq("fetch", log)
              /\ state \in {SYNC_STARTING, SYNC_CHECK_NEW, SYNC_FINISHED, ABORTED}

\* C10 witness: a run on a clean tree with unexported commits has finished.
C10_Witness ==
    /\ wf = "sync" /\ ~self.continue
    /\ snap.clean
    /\ ~NewSyncAdmissible
    /\ InSeq("unexported_changes", log)
    /\ state = SYNC_FINISHED

\* The record of the branch an export run works on, as the store holds it.
ExportStoredRecord == FromBranch(store, xself.branch)

\* An export run stands at a path it has just chosen.
ExportAtCreateIssue == ExportLive /\ xstate = EXPORT_UPLOADING_ISSUE
ExportAtUpdateIssue == ExportLive /\ xstate = EXPORT_UPDATING_ISSUE

\* C11: an export run is at Create-Issue only when the record it loaded (and
\* the record in the store) has no Review Linkage, and at Update-Issue only
\* when it has one; and the review service gets a new issue only from a run
\* whose branch has no Review Linkage in the store.
C11_PathByReviewLinkage ==
    /\ [](ExportAtCreateIssue => /\ ~InReview(xself.rietveld_info)
                                 /\ ~InReview(ExportStoredRecord))
    /\ [](ExportAtUpdateIssue => /\ InReview(xself.rietveld_info)
                                 /\ InReview(ExportStoredRecord))
    /\ [][rietveld'.issues # rietveld.issues
          => ExportAtCreateIssue /\ ~InReview(ExportStoredRecord)]_vars

\* An export of a branch under review stands at Update-Issue, the one issue
\* of the service being the branch's.
C11_Witness ==
    /\ ExportAtUpdateIssue
    /\ rietveld.issues = 1
    /\ ExportStoredRecord[REVIEW_INFO][ISSUE] = 1

\* An export run from the command line, on a branch that had no Branch Record
\* when it started, has reached Finished.
FirstExportFinished ==
    /\ wf = "export" /\ xstate = EXPORT_FINISHED
    /\ xself.branch \notin DOMAIN snap.store

\* C12: when an export of a branch without a record completes, the store holds
\* a record of the branch whose Remote Linkage has last-synced and the
\* creation commit both at the remote tip of the start of the run, and whose
\* Review Linkage has the issue the upload created and the branch head as
\* last-exported commit; with no title given, and unless the refresh from the
\* service has replaced them, its subject and description are those of one
\* commit the branch is ahead of that remote tip.
C12_FirstExportRecord ==
    FirstExportFinished =>
        /\ xself.branch \in DOMAIN store
        /\ LET rec == FromBranch(store, xself.branch)
           IN /\ Has(rec, REMOTE_INFO) /\ Has(rec, REVIEW_INFO)
              /\ rec[REMOTE_INFO][LAST_SYNCED] = snap.remoteTip
              /\ rec[REMOTE_INFO][COMMIT_HASH] = snap.remoteTip
              /\ rietveld.issues = snap.rietveld.issues + 1
              /\ rec[REVIEW_INFO][ISSUE] = rietveld.issues
              /\ rec[REVIEW_INFO][LAST_COMMIT] = branches[xself.branch]
              /\ ~xself.commit_message_overridden /\ ~InSeq("metadata_ok", log)
                 => \E c \in GetCommits(snap.remoteTip, branches[xself.branch]) :
                       /\ rec[REVIEW_INFO][SUBJECT] = CommitSubject(c)
                       /\ rec[REVIEW_INFO][ISSUE_DESCRIPTION] = CommitDescription(c)

\* A first export finished with the message taken from a commit that has a
\* description, the refresh having failed.
C12_Witness ==
    /\ FirstExportFinished
    /\ ~xself.commit_message_overridden
    /\ InSeq("metadata_failed", log)
    /\ store[xself.branch][REVIEW_INFO][ISSUE_DESCRIPTION] = "details"

\* An export run from the command line that started on a clean branch whose
\* record has a Review Linkage with the branch head as last-exported commit.
ExportOfNothingNew ==
    /\ wf = "export"
    /\ snap.clean
    /\ snap.current \in DOMAIN snap.store
    /\ Has(snap.store[snap.current], REVIEW_INFO)
    /\ snap.store[snap.current][REVIEW_INFO][LAST_COMMIT] = snap.branches[snap.current]

\* C13: an export run on a clean branch under review whose head is the
\* last-exported commit, with or without a title, does not take the
\* Create-Issue path and does not end before it has reached Update-Issue and
\* asked the empty-patch question.
C13_NothingNewReachesUpdateIssue ==
    ExportOfNothingNew =>
        /\ xstate # EXPORT_UPLOADING_ISSUE
        /\ xstate \in {ABORTED, EXPORT_UPDATING_METADATA, EXPORT_FINISHED}
           => InSeq(EXPORT_UPDATING_ISSUE, trace) /\ InSeq("ask_empty_patch", log)

\* An export run from the command line has run Update-Metadata and the refresh
\* from the review service did not succeed.
ExportRefreshFailed ==
    /\ wf = "export"
    /\ InSeq(EXPORT_UPDATING_METADATA, trace)
    /\ xstate # EXPORT_UPDATING_METADATA
    /\ ~InSeq("metadata_ok", log)

\* C14: after an Update-Metadata whose refresh failed, whether the answer
\* lacked fields or had a non-success status, the failure has been reported,
\* the run is at Finished, and the store holds the record saved before the
\* refresh: last-exported commit at the branch head and the issue identifier.
C14_RefreshFailureNonFatal ==
    ExportRefreshFailed =>
        /\ InSeq("metadata_failed", log)
        /\ xstate = EXPORT_FINISHED
        /\ InReview(FromBranch(store, snap.current))
        /\ store[snap.current][REVIEW_INFO][LAST_COMMIT] = branches[snap.current]
        /\ Has(store[snap.current][REVIEW_INFO], ISSUE)

\* A submit run has changed something: a branch or the checkout, the index or
\* the working tree, a commit, a remote or remote-tracking reference, the
\* store, or the state of the review service.
SubmitHasActed == wf = "submit" /\ Snapshot # snap

\* C15: a submit run has changed nothing (no branch created, no reference
\* moved, nothing pushed, no record written, nothing sent to the review
\* service) unless the tree was clean when the run checked its environment and
\* the service has reported an approval marker at Verify-Approval.
C15_SubmitActsOnlyWhenCleanAndApproved ==
    SubmitHasActed =>
        /\ snap.clean
        /\ InSeq(SUBMIT_VERIFY_APPROVAL, trace)
        /\ InSeq("approved", log)

\* A clean, approved submit run has pushed.
C15_Witness ==
    /\ SubmitHasActed
    /\ InSeq("approved", log)
    /\ remoteTip # snap.remoteTip

\* What a submit run does only after a landed push: the original branch is
\* deleted and made again (it points elsewhere than before the run), the
\* record of the branch is discarded, a commit link is posted or attempted,
\* the issue is closed or its closing attempted.
SubmitSuccessActionDone ==
    /\ wf = "submit"
    /\ \/ snap.current \notin DOMAIN branches
       \/ branches[snap.current] # snap.branches[snap.current]
       \/ snap.current \in DOMAIN snap.store /\ snap.current \notin DOMAIN store
       \/ InSeq("remove_record", log)
       \/ rietveld.messages # snap.rietveld.messages
       \/ InSeq("link_posted", log) \/ InSeq("link_failed", log)
       \/ rietveld.closed # snap.rietveld.closed
       \/ InSeq("issue_closed", log) \/ InSeq("close_failed", log)

\* The submit run closed the issue, or tried to.
SubmitCloseAttempted ==
    /\ wf = "submit"
    /\ \/ rietveld.closed # snap.rietveld.closed
       \/ InSeq("issue_closed", log) \/ InSeq("close_failed", log)

\* C16: the success-only actions of submit happen only in a run whose push
\* has succeeded, and the issue is closed, or its closing attempted, only in a
\* run that was not asked to leave it open.
C16_SuccessActionsOnlyAfterPush ==
    /\ SubmitSuccessActionDone => InSeq("push", log)
    /\ SubmitCloseAttempted => self.do_close

\* A submit whose push landed has discarded the record, posted the link and
\* closed the issue.
C16_Witness ==
    /\ SubmitSuccessActionDone
    /\ snap.current \notin DOMAIN store
    /\ rietveld.messages # snap.rietveld.messages
    /\ rietveld.closed # snap.rietveld.closed
    /\ InSeq("push", log)

\* A submit run has left Clean-Up-Review.
SubmitReviewCleanUpDone ==
    /\ wf = "submit"
    /\ InSeq(SUBMIT_CLEAN_UP_REVIEW, trace)
    /\ state # SUBMIT_CLEAN_UP_REVIEW

\* C17: whatever happens to the commit link in Clean-Up-Review (posted,
\* rejected by the service, or impossible to build for a recognised provider),
\* the run goes on: it has closed or tried to close the issue unless it was
\* asked to leave it open, and it is at Finished; for a remote of no
\* recognised provider nothing is posted.
C17_CommitLinkFailureNonFatal ==
    SubmitReviewCleanUpDone =>
        /\ state = SUBMIT_FINISHED
        /\ self.do_close => InSeq("issue_closed", log) \/ InSeq("close_failed", log)
        /\ ~self.do_close => rietveld.closed = snap.rietveld.closed
        /\ RepositoryInfoFromRemote(self.rietveld_info[REMOTE_INFO][URL]) = "None"
           => /\ rietveld.messages = snap.rietveld.messages
              /\ ~InSeq("link_posted", log) /\ ~InSeq("link_failed", log)

\* A sync run started on a branch that had no Branch Record.
SyncWithoutRecord == wf = "sync" /\ snap.current \notin DOMAIN snap.store

\* C18: a sync run started on a branch without a Branch Record has reported
\* that there is no review data and stands in the terminal state, and has
\* fetched, merged, committed, uploaded and written nothing.
C18_SyncWithoutRecordReports ==
    SyncWithoutRecord =>
        /\ state = SYNC_FINISHED
        /\ InSeq("no_review_data", log)
        /\ Snapshot = snap

\* Issue identifiers a setter may be handed: those the service has given out
\* and one more.
IssueIds == 1..(MaxIssues + 1)

\* The stored records whose Review Linkage has an issue identifier.
ReviewedBranches(st) ==
    {b \in DOMAIN st : Has(st[b], REVIEW_INFO) /\ Has(st[b][REVIEW_INFO], ISSUE)}

\* Setting issue identifier v on the Review Linkage of record info, directly,
\* through ReviewInfo.update and through the review_info setter of the record:
\* each raises exactly when v differs from the identifier there, and leaves
\* the linkage as it was.
IssueSetterGuards(info, v) ==
    LET rv == info[REVIEW_INFO]
        direct == SetProperty(rv, ISSUE, v)
        delta == UpdateInfo(rv, [issue |-> v], ReviewInfoProperties)
        linked == SetLinkage(info, REVIEW_INFO, [issue |-> v], ReviewInfoProperties)
    IN /\ direct.raised = (v # rv[ISSUE]) /\ direct.obj = rv
       /\ delta.raised = (v # rv[ISSUE]) /\ delta.obj = rv
       /\ linked.raised = (v # rv[ISSUE]) /\ linked.obj = info

\* A step has put linkage key of branch b in the store, or has changed it.
LinkageWritten(b, key) ==
    \/ b \notin DOMAIN store
    \/ ~Has(store[b], key)
    \/ store'[b][key] # store[b][key]

\* C19: for every Review Linkage that a step writes to the store,
\* setting an issue identifier raises when it differs from the one there and
\* changes nothing when it is the same; and no step of any workflow changes
\* the issue identifier of a record that is in the store before and after it.
C19_IssueSetOnce ==
    [][/\ \A b \in ReviewedBranches(store') :
             LinkageWritten(b, REVIEW_INFO) =>
                \A v \in IssueIds : IssueSetterGuards(FromBranch(store', b), v)
       /\ \A b \in ReviewedBranches(store) :
             b \in DOMAIN store' =>
                /\ b \in ReviewedBranches(store')
                /\ store'[b][REVIEW_INFO][ISSUE] = store[b][REVIEW_INFO][ISSUE]]_vars

\* An export has updated the Review Linkage of a record that already had an
\* issue identifier: the last-exported commit moved, the identifier stayed.
C19_Witness ==
    /\ wf = "export" /\ xstate = EXPORT_FINISHED
    /\ snap.current \in ReviewedBranches(snap.store)
    /\ snap.current \in ReviewedBranches(store)
    /\ store[snap.current][REVIEW_INFO][LAST_COMMIT]
          # snap.store[snap.current][REVIEW_INFO][LAST_COMMIT]
    /\ store[snap.current][REVIEW_INFO][ISSUE] = snap.store[snap.current][REVIEW_INFO][ISSUE]

\* The fields of a Remote Linkage that are set once, and values a setter may
\* be handed for each.
RemoteFixedFields == {REMOTE, BRANCH, URL, COMMIT_HASH}
RemoteFieldValues(field) ==
    IF field = REMOTE THEN {ORIGIN, "upstream"}
    ELSE IF field = BRANCH THEN {MASTER, "dev"}
    ELSE IF field = URL THEN RemoteUrls
    ELSE 1..MaxCommits

\* The stored records that have a Remote Linkage with all four fields.
LinkedBranches(st) ==
    {b \in DOMAIN st : /\ Has(st[b], REMOTE_INFO)
                       /\ \A f \in RemoteFixedFields : Has(st[b][REMOTE_INFO], f)}

\* Setting value v for field f on the Remote Linkage of record info, directly,
\* through RemoteInfo.update and through the remote_info setter of the record:
\* each raises exactly when v differs from the value there, and leaves the
\* linkage as it was.
RemoteSetterGuards(info, f, v) ==
    LET rm == info[REMOTE_INFO]
        other == [k \in {f} |-> v]
        direct == SetProperty(rm, f, v)
        delta == UpdateInfo(rm, other, RemoteInfoProperties)
        linked == SetLinkage(info, REMOTE_INFO, other, RemoteInfoProperties)
    IN /\ direct.raised = (v # rm[f]) /\ direct.obj = rm
       /\ delta.raised = (v # rm[f]) /\ delta.obj = rm
       /\ linked.raised = (v # rm[f]) /\ linked.obj = info

\* C20: for every Remote Linkage that a step writes to the store, an update
\* of its remote, branch, url or creation commit hash raises
\* when the value differs and is accepted without change when it is the same;
\* and no step of any workflow changes one of these four fields of a record
\* that is in the store before and after it.
C20_RemoteFieldsSetOnce ==
    [][/\ \A b \in LinkedBranches(store') :
             LinkageWritten(b, REMOTE_INFO) =>
                \A f \in RemoteFixedFields : \A v \in RemoteFieldValues(f) :
                   RemoteSetterGuards(FromBranch(store', b), f, v)
       /\ \A b \in LinkedBranches(store) :
             b \in DOMAIN store' =>
                /\ b \in LinkedBranches(store')
                /\ \A f \in RemoteFixedFields :
                      store'[b][REMOTE_INFO][f] = store[b][REMOTE_INFO][f]]_vars

\* A sync has saved a new last-synced commit in a Remote Linkage whose
\* creation commit is no longer the tip of the remote branch.
C20_Witness ==
    /\ wf = "sync"
    /\ snap.current \in LinkedBranches(snap.store)
    /\ snap.current \in LinkedBranches(store)
    /\ store[snap.current][REMOTE_INFO][LAST_SYNCED]
          # snap.store[snap.current][REMOTE_INFO][LAST_SYNCED]
    /\ store[snap.current][REMOTE_INFO][COMMIT_HASH] # remoteTip

\* Every property name of the two kinds of linkage.
LinkageProperties == SeqRange(RemoteInfoProperties) \cup SeqRange(ReviewInfoProperties)

\* An update call has returned normally.
UpdateReturned == log = <<"update">>

\* Property p of the target is as the delta has it when the delta has it, and
\* as the target had it (set to the same value, or unset) otherwise.
UpdatedFromDelta(before, delta, after, p) ==
    IF Has(delta, p)
    THEN Has(after, p) /\ after[p] = delta[p]
    ELSE /\ Has(after, p) = Has(before, p)
         /\ Has(after, p) => after[p] = before[p]

\* C21: an update of a Remote or Review Linkage that returns has given the
\* target the value of the delta for every property the delta has and left
\* every other property as it was; a delta of a Remote Linkage that holds only
\* last-synced is never rejected and changes last-synced only.
C21_UpdateChangesDeltaFieldsOnly ==
    /\ UpdateReturned =>
          \A p \in LinkageProperties : UpdatedFromDelta(kwargs.self, kwargs.other, self, p)
    /\ log # <<>> /\ DOMAIN kwargs.other = {LAST_SYNCED}
          => /\ UpdateReturned
             /\ self = Put(kwargs.self, LAST_SYNCED, kwargs.other[LAST_SYNCED])

\* A Remote Linkage with every field set has been updated from a delta that
\* holds a new last-synced only.
C21_Witness ==
    /\ UpdateReturned
    /\ DOMAIN kwargs.other = {LAST_SYNCED}
    /\ DOMAIN kwargs.self = SeqRange(RemoteInfoProperties)
    /\ self[LAST_SYNCED] # kwargs.self[LAST_SYNCED]
    /\ self[COMMIT_HASH] = kwargs.self[COMMIT_HASH]

\* from_branch has loaded the branch of the object saved before.
LoadedAfterSave ==
    /\ log = <<"save", "from_branch">>
    /\ kwargs.branch_name = kwargs.saved[BRANCH_NAME]

RenameCompleted == wf = "rename" /\ Returned

\* C23: when a Rename run whose preconditions all held (the source branch
\* existed and was not checked out, the target did not exist, the source had a
\* record) completes, the branch exists under the target name only, at the
\* commit the source was at, the store holds under the target key the content
\* that was under the source key at the start, and nothing under the source key.
C23_RenameMovesBranchAndRecord ==
    RenameCompleted =>
        /\ self.source_branch \in DOMAIN snap.branches
        /\ self.target_branch \notin DOMAIN snap.branches
        /\ self.source_branch # snap.current
        /\ self.source_branch \in DOMAIN snap.store
        /\ self.source_branch \notin DOMAIN branches
        /\ self.target_branch \in DOMAIN branches
        /\ branches[self.target_branch] = snap.branches[self.source_branch]
        /\ \A b \in DOMAIN snap.branches \ {self.source_branch} :
              b \in DOMAIN branches /\ branches[b] = snap.branches[b]
        /\ self.target_branch \in DOMAIN store
        /\ store[self.target_branch] = snap.store[self.source_branch]
        /\ self.source_branch \notin DOMAIN store

\* A completed rename of a branch under review, in a clone where other
\* branches have records too.
C23_Witness ==
    /\ RenameCompleted
    /\ Has(snap.store[self.source_branch], REVIEW_INFO)
    /\ DOMAIN store # {self.target_branch}

\* The preconditions of Delete as check_branch tests them, at the start of the run.
DeletePreconditions ==
    /\ self.branch \in DOMAIN snap.branches
    /\ self.branch # snap.current
    /\ InReview(FromBranch(snap.store, self.branch))

\* check_branch has run.
DeleteChecked == wf = "delete" /\ state # DELETE_CHECK_BRANCH

\* git branch -D raised: nothing was deleted.
DeleteGitFailed ==
    /\ wf = "delete" /\ state = ABORTED
    /\ \E i \in DOMAIN log : log[i] = "deleting_branch"

DeleteCompleted == wf = "delete" /\ Returned

RenamePreconditionFailed ==
    \/ self.target_branch \in DOMAIN snap.branches
    \/ self.source_branch \notin DOMAIN snap.branches
    \/ self.source_branch = snap.current
    \/ self.source_branch \notin DOMAIN snap.store

Reports == {"target_exists", "no_branch", "current_branch", "no_review"}

\* C25: a Rename or Delete run of which a precondition fails (Rename: target
\* exists, source missing, source checked out, source without a record;
\* Delete: branch missing, branch checked out, branch without a review in
\* progress) reports it and ends in its terminal state, with the branches and
\* the store as they were when it started.
C25_PreconditionFailureReported ==
    /\ (wf = "rename" /\ state # RENAME_CHECK_BRANCHES /\ RenamePreconditionFailed) =>
          /\ state = RENAME_FINISHED
          /\ \E i \in DOMAIN log : log[i] \in Reports
          /\ branches = snap.branches /\ store = snap.store
    /\ (DeleteChecked /\ ~DeletePreconditions) =>
          /\ state = DELETE_FINISHED
          /\ \E i \in DOMAIN log : log[i] \in Reports
          /\ branches = snap.branches /\ store = snap.store

\* The branch whose record the run removed, "" when it removed none.
RemovedBranch ==
    IF ~(\E i \in DOMAIN log : log[i] = "remove_record") THEN ""
    ELSE IF wf = "rename" THEN self.source_branch
    ELSE IF wf = "delete" THEN self.branch
    ELSE ""

\* The keys a run writes besides: the target of a rename.
WrittenBranches == IF wf = "rename" THEN {self.target_branch} ELSE {}

\* C26: a run that removed the record of branch b has deleted b's key and
\* nothing else: every other key it did not write is in the store exactly
\* when it was at the start, with the same content; and the section was
\* removed if and only if no record is left after the removal.
C26_RemoveDeletesOneKey ==
    RemovedBranch # "" =>
        /\ RemovedBranch \in DOMAIN snap.store
        /\ RemovedBranch \notin DOMAIN store
        /\ DOMAIN store \ WrittenBranches = DOMAIN snap.store \ (WrittenBranches \cup {RemovedBranch})
        /\ \A b \in DOMAIN store \ WrittenBranches : store[b] = snap.store[b]
        /\ (\E i \in DOMAIN log : log[i] = "remove_section") <=> DOMAIN store = {}

\* A delete that leaves the records of two other branches, so that the
\* section is kept.
C26_Witness ==
    /\ wf = "delete" /\ RemovedBranch # ""
    /\ Cardinality(DOMAIN store) = 2
    /\ ~(\E i \in DOMAIN log : log[i] = "remove_section")

\* A delete of the only record there is, after which the section is removed.
C26_PrunedReached ==
    /\ wf = "delete" /\ RemovedBranch # ""
    /\ \E i \in DOMAIN log : log[i] = "remove_section"

\* A handler of the Rename or Delete machine can run next.
BranchHandlerEnabled ==
    ENABLED (\/ RenameCheckBranches
             \/ \E ok \in BOOLEAN : RenameRename(ok)
             \/ DeleteCheckBranch
             \/ \E ok \in BOOLEAN : DeleteDelete(ok))

\* The constructor of the Rename or Delete machine has returned without an
\* exception: the last handler ran to its end and called no other.
ConstructionReturned ==
    /\ wf \in {"rename", "delete"}
    /\ ~Aborted
    /\ ~BranchHandlerEnabled

\* C27: whenever the construction of a machine returns normally the machine
\* is in its terminal state FINISHED; here for Rename and Delete, the runs
\* that rename or delete included.
C27_ReturnsInFinished == ConstructionReturned => Finished

\* A transition of a running machine: the state it enters is later in the
\* declared order than the one it leaves, or the handler raised.
Forward(before, after) == after > before \/ after = ABORTED

\* C28: every transition of a running machine (Export, nested in a sync run
\* or not, Sync, Submit, Get-Info) enters a state with a larger index than
\* the state it leaves, so that no state is entered twice and a run makes at
\* most as many transitions as the machine has states; the states entered
\* are recorded one by one.  (Sync drops the Export object it ran once that
\* has finished: no transition of the Export machine.)
C28_StatesOnlyForward ==
    [][(wf # "idle" /\ wf' = wf) =>
          /\ state' # state => Forward(state, state')
          /\ xstate' \notin {xstate, NOT_CONSTRUCTED} => Forward(xstate, xstate')
          /\ trace' # trace =>
                /\ Len(trace') = Len(trace) + 1
                /\ \A i \in DOMAIN trace : trace'[i] = trace[i]
                /\ Forward(trace[Len(trace)], trace'[Len(trace')])]_vars

\* A sync run that went through the whole nested Export and finished.
C28_Witness ==
    /\ wf = "sync" /\ state = SYNC_FINISHED
    /\ \E i \in DOMAIN trace : trace[i] = SYNC_EXPORT
    /\ \E i \in DOMAIN log : log[i] = "upload"

\* The push of a submit run has landed.
PushSucceeded == wf = "submit" /\ InSeq("push", log)

\* C29: when the push of a submit run has succeeded, the tracked remote
\* branch has exactly one commit more than at the start of the run: the new
\* tip is a commit made by the run, its only parent is the last-synced commit
\* of the record, which is the tip the remote branch had, and its content is
\* the content of the head of the review branch at the start of the run.
C29_PushAddsOneSquashedCommit ==
    PushSucceeded =>
        /\ remoteTip > snap.commits
        /\ NumCommits = snap.commits + 1
        /\ commits[remoteTip].parent = snap.store[snap.current][REMOTE_INFO][LAST_SYNCED]
        /\ commits[remoteTip].parent = snap.remoteTip
        /\ commits[remoteTip].tree = commits[snap.branches[snap.current]].tree

\* A push that landed a review branch with more than one commit of its own
\* since the last-synced commit.
C29_Witness ==
    /\ PushSucceeded
    /\ commits[snap.branches[snap.current]].parent # snap.remoteTip
    /\ snap.branches[snap.current] # snap.remoteTip

\* The last commit exported for review, as the record said when the run started.
LastExported == snap.store[snap.current][REVIEW_INFO][LAST_COMMIT]

\* C30: a submit run gets to Push only if the head of the review branch is
\* the last-exported commit of the record, and what a push lands is the
\* content of that commit.
C30_LandsOnlyExportedContent ==
    /\ (wf = "submit" /\ InSeq(SUBMIT_PUSHING, trace)) =>
          snap.branches[snap.current] = LastExported
    /\ PushSucceeded => commits[remoteTip].tree = commits[LastExported].tree

\* Clean-Up-Local of the submit run has run.
SubmitCleanedUp ==
    /\ wf = "submit"
    /\ InSeq(SUBMIT_CLEAN_UP_LOCAL, trace)
    /\ state # SUBMIT_CLEAN_UP_LOCAL

\* C31: the landing branch of a submit run has a name no branch had when the
\* run started; throughout the run every branch that existed at the start,
\* other than the review branch itself, exists and points at the commit it
\* pointed at; and after Clean-Up-Local, on success and on failure, the
\* branches are those there were at the start.
C31_OnlyOwnLandingBranchDeleted ==
    wf = "submit" =>
        /\ Has(self, "review_branch") => self.review_branch \notin DOMAIN snap.branches
        /\ \A b \in DOMAIN snap.branches \ {snap.current} :
              b \in DOMAIN branches /\ branches[b] = snap.branches[b]
        /\ SubmitCleanedUp => DOMAIN branches = DOMAIN snap.branches

\* A submit that landed in a clone where review-1 and review-1_0 were taken.
C31_Witness ==
    /\ SubmitCleanedUp /\ InSeq("push", log)
    /\ LandingNames \subseteq DOMAIN snap.branches
    /\ self.review_branch = "review-1_0_0"

\* The same after a push that was refused.
C31_FailureReached ==
    /\ SubmitCleanedUp /\ state = SUBMIT_FINISHED
    /\ InSeq(SUBMIT_PUSHING, trace)
    /\ "review-1" \in DOMAIN snap.branches

\* The original branch is deleted and not made again.
OriginalBranchMissing == self.branch \notin DOMAIN branches

\* The original branch is replaced and its record is still there.
ReplacedWithRecord ==
    /\ self.branch \in DOMAIN branches
    /\ branches[self.branch] # snap.branches[self.branch]
    /\ self.branch \in DOMAIN store

\* The landing branch of the run is still there.
LandingBranchLeft == Has(self, "review_branch") /\ self.review_branch \in DOMAIN branches

\* C32: once a submit run has left Clean-Up-Local, a command of it having
\* failed or not, the original branch is not deleted without being made
\* again, it is not replaced while its record remains, and the landing
\* branch is not left behind.
C32_CleanUpLocalAllOrNothing ==
    SubmitCleanedUp =>
        /\ ~OriginalBranchMissing
        /\ ~ReplacedWithRecord
        /\ ~LandingBranchLeft

\* A sync run that merged without conflict and whose export completed.
SyncMergedAndExported ==
    /\ wf = "sync" /\ state = SYNC_FINISHED
    /\ InSeq(SYNC_MERGE_REMOTE_IN, trace)
    /\ InSeq(SYNC_EXPORT, trace)

\* The record of branch b in store st is as such a run leaves it in a clone
\* with branches brs and the tip of the remote branch at tip.
SyncedRecord(st, b, brs, tip) ==
    /\ b \in DOMAIN st
    /\ st[b][REMOTE_INFO][LAST_SYNCED] = tip
    /\ Has(st[b], REVIEW_INFO)
    /\ st[b][REVIEW_INFO][LAST_COMMIT] = brs[b]
    /\ ~Has(st[b], SYNC_HALTED)

\* A sync run without the continuation flag that started in a clean clone
\* with such a record and the remote branch where the record says.
SyncAgainFinished ==
    /\ wf = "sync" /\ state = SYNC_FINISHED /\ ~self.continue
    /\ snap.clean
    /\ SyncedRecord(snap.store, snap.current, snap.branches, snap.remoteTip)

\* C33: a sync run that merged without conflict and completed its export
\* leaves a record with last-synced the fetched tip, last-exported commit the
\* new head of the branch and no halted flag, and the record the run holds is
\* the one in the store; a sync run started from there with nothing new in
\* the remote goes through Check-New to Fetch-Remote and finishes without a
\* merge and without a change of the store.
C33_SyncLeavesSyncedRecord ==
    /\ SyncMergedAndExported =>
          /\ SyncedRecord(store, self.branch, branches, remoteTip)
          /\ trackingRef = remoteTip
          /\ FromBranch(store, self.branch) = self.rietveld_info
    /\ SyncAgainFinished =>
          /\ trace = <<SYNC_STARTING, SYNC_CHECK_NEW, SYNC_FETCH_REMOTE, SYNC_FINISHED>>
          /\ store = snap.store
          /\ NumCommits = snap.commits
          /\ branches = snap.branches

C33_Witness == SyncMergedAndExported

\* A second sync run right after, with nothing new in the remote.
C33_SyncAgainReached ==
    /\ SyncAgainFinished
    /\ commits[branches[self.branch]].msg = "sync"

\* A sync run has entered Export-Synced and its export has not uploaded yet.
SyncInExportBeforeUpload ==
    /\ wf = "sync"
    /\ InSeq(SYNC_EXPORT, trace)
    /\ ~InSeq("upload", log)

\* C34: from the moment a sync run enters Export-Synced, after a merge or on
\* a continuation, until its export uploads, there is exactly one commit
\* between the last-exported commit of the stored record and the head of the
\* branch; the export the run constructs has taken its message from that
\* commit, without a choice, and its constructor raises no nothing-to-export
\* error (it constructs no export only when the tree is not clean).
C34_OneCommitAtExportSynced ==
    SyncInExportBeforeUpload =>
        /\ GetCommits(store[self.branch][REVIEW_INFO][LAST_COMMIT], HeadCommit) = {HeadCommit}
        /\ xstate \in {EXPORT_STARTING, EXPORT_UPDATING_ISSUE} =>
              /\ ~xself.commit_message_overridden
              /\ xself.commit_subject = CommitSubject(HeadCommit)
        /\ (InSeq("exporting", log) /\ IsNone(xself)) => InSeq("not_clean", log)

\* A continuation that has entered Export-Synced and constructed its export.
C34_Witness ==
    /\ SyncInExportBeforeUpload
    /\ self.continue
    /\ xstate = EXPORT_STARTING

\* The same on the merge path.
C34_MergePathReached ==
    /\ SyncInExportBeforeUpload
    /\ ~self.continue
    /\ xstate = EXPORT_STARTING

\* The step is export_to_review of a sync run saving the record.
ExportSyncedStep == wf = "sync" /\ state = SYNC_EXPORT /\ xstate = NOT_CONSTRUCTED

\* The step is a refresh from the review service by getinfo or submit.
RefreshStep ==
    \/ wf = "getinfo" /\ state = GETINFO_PULL
    \/ wf = "submit" /\ state = SUBMIT_UPDATE_FROM_METADATA

\* Record d2 differs from d1 at most in reviewers, cc, subject and description.
RefreshedOnly(d1, d2) ==
    /\ DOMAIN d2 \ {REVIEWERS, CC} = DOMAIN d1 \ {REVIEWERS, CC}
    /\ \A k \in DOMAIN d1 \ {REVIEWERS, CC, REVIEW_INFO} : d2[k] = d1[k]
    /\ Has(d1, REVIEW_INFO) =>
          /\ DOMAIN d2[REVIEW_INFO] \ {SUBJECT, ISSUE_DESCRIPTION}
                = DOMAIN d1[REVIEW_INFO] \ {SUBJECT, ISSUE_DESCRIPTION}
          /\ \A p \in DOMAIN d1[REVIEW_INFO] \ {SUBJECT, ISSUE_DESCRIPTION} :
                d2[REVIEW_INFO][p] = d1[REVIEW_INFO][p]

\* C35: a step that changes the stored last-synced of a record that is in
\* the store before and after it is export_to_review of a sync run; a refresh
\* from the review service by getinfo or submit changes nothing of a stored
\* record but reviewers, cc, subject and description.
C35_LastSyncedOnlyByExportSynced ==
    [][\A b \in DOMAIN store \cap DOMAIN store' :
          /\ (/\ Has(store[b], REMOTE_INFO)
              /\ store'[b][REMOTE_INFO][LAST_SYNCED] # store[b][REMOTE_INFO][LAST_SYNCED])
                => ExportSyncedStep
          /\ (RefreshStep /\ store'[b] # store[b]) => RefreshedOnly(store[b], store'[b])]_vars

\* A getinfo refresh has rewritten the record of a branch that was synced
\* to a later tip than the one it was created from.
C35_Witness ==
    /\ wf = "getinfo" /\ InSeq("metadata_ok", log)
    /\ store # snap.store
    /\ store[self.branch][REMOTE_INFO][LAST_SYNCED] # store[self.branch][REMOTE_INFO][COMMIT_HASH]

\* The head of the checked-out branch at the start of the run is the commit
\* of the conflict resolution: the first commit of the branch that holds the
\* content of the remote tip the halted run had merged, made by the user on
\* top of the commit the branch was at when the run halted.
ResolutionCommitted ==
    LET head == snap.branches[snap.current]
    IN /\ haltTip \in DOMAIN commits
       /\ commits[head].msg = "work"
       /\ commits[haltTip].tree \subseteq commits[head].tree
       /\ commits[head].parent \in DOMAIN commits
       /\ ~(commits[haltTip].tree \subseteq commits[commits[head].parent].tree)

\* A continuation on a halted branch, started on a clean tree right after
\* the resolution was committed as one commit, that has finished.
ContinuationAfterResolution ==
    /\ ContinuationOfHalted
    /\ snap.clean
    /\ ResolutionCommitted
    /\ state = SYNC_FINISHED

\* C36: a continuation that runs on a halted branch after the user committed
\* the conflict resolution as one commit goes through Export-Synced and
\* finishes with the halted flag cleared, whichever export or getinfo runs
\* came between the halt and the continuation.
C36_HaltedStaysResumable ==
    ContinuationAfterResolution =>
        /\ InSeq(SYNC_EXPORT, trace)
        /\ ~HaltedIn(store, self.branch)

\* The same continuation when no export has moved the last-exported commit
\* since the halt.
C36_ResumedReached ==
    /\ ContinuationAfterResolution
    /\ CommitsSinceExport(snap.store, snap.branches, self.branch) = 1
    /\ InSeq(SYNC_EXPORT, trace)

\* An export from the command line, started on a clean tree with no commit
\* between the base commit (MessageChoices) and the head of the branch, whose
\* constructor raised: without a title there is no message to export.
ExportNothingToExport ==
    /\ wf = "export"
    /\ xstate = ABORTED
    /\ trace = <<ABORTED>>
    /\ snap.clean
    /\ LET loaded == FromBranch(snap.store, snap.current)
           base == IF InReview(loaded) THEN loaded[REVIEW_INFO][LAST_COMMIT]
                   ELSE IF ~IsNone(loaded) /\ Has(loaded, REMOTE_INFO)
                        THEN loaded[REMOTE_INFO][COMMIT_HASH]
                        ELSE snap.remoteTip
       IN GetCommits(base, snap.branches[snap.current]) = {}

\* C37: an export without a message that finds no commit between its base
\* commit and the head of the branch fails in the constructor, uploads
\* nothing, and leaves the metadata store as it was before the run: no record
\* created, none modified.
C37_NothingToExportLeavesStore ==
    ExportNothingToExport =>
        /\ IsNone(xself)
        /\ ~InSeq("upload", log)
        /\ rietveld = snap.rietveld
        /\ store = snap.store

\* The same failure on a branch whose record is already stored.
C37_RecordedReached ==
    /\ ExportNothingToExport
    /\ snap.current \in DOMAIN snap.store
    /\ store = snap.store

\* A linkage update that raised because the delta carries another value for
\* a write-once property of the linkage.
UpdateRejected ==
    /\ log = <<"update", "raised">>
    /\ \E p \in (DOMAIN kwargs.self \cap DOMAIN kwargs.other) \ CanChange :
          kwargs.other[p] # kwargs.self[p]

\* C38: a rejected update leaves every property of the linkage it was
\* called on as it was, for a Remote Linkage and for a Review Linkage, also
\* when the delta carries a new value for a property that may change.
C38_RejectedUpdateChangesNothing ==
    UpdateRejected => self = kwargs.self

\* A rejected update of a Review Linkage whose delta also carries a new
\* last-exported commit: the linkage is as it was.
C38_ReviewLinkageReached ==
    /\ UpdateRejected
    /\ Has(kwargs.self, ISSUE)
    /\ Has(kwargs.other, LAST_COMMIT) /\ Has(kwargs.self, LAST_COMMIT)
    /\ kwargs.other[LAST_COMMIT] # kwargs.self[LAST_COMMIT]
    /\ self = kwargs.self

\* A record with a Remote Linkage that has remote, branch, creation commit
\* and last-synced, and whose Review Linkage, when it has one, has an issue
\* and a last-exported commit.
CompleteLinkages(rec) ==
    /\ Has(rec, REMOTE_INFO)
    /\ {REMOTE, BRANCH, COMMIT_HASH, LAST_SYNCED} \subseteq DOMAIN rec[REMOTE_INFO]
    /\ Has(rec, REVIEW_INFO) => {ISSUE, LAST_COMMIT} \subseteq DOMAIN rec[REVIEW_INFO]

\* C39: every Branch Record the workflows write to the store has a Remote
\* Linkage with remote, branch, creation commit hash and last-synced set, and
\* every stored Review Linkage has an issue identifier and a last-exported
\* commit.
C39_StoredLinkagesComplete ==
    \A b \in DOMAIN store : CompleteLinkages(store[b])

\* A record with both linkages is in the store after a sync halted on it.
C39_Witness ==
    /\ \E b \in DOMAIN store : Has(store[b], REVIEW_INFO) /\ HaltedIn(store, b)
    /\ wf = "idle"

====
